---------------------------- MODULE Spec2Model ----------------------------
(***************************************************************************)
(* A state-machine model of the htmljs-parser tokenizer: the parser core   *)
(* loop, CONCISE_HTML_CONTENT, ATTRIBUTE, EXPRESSION (with its operator    *)
(* pattern), JS_COMMENT_LINE and the notifiers.                            *)
(*                                                                         *)
(* The source buffer is a sequence of one-character strings; offsets are   *)
(* 0-based as in the source (data[i] of the source is data[i + 1] here).   *)
(* One step of the model is one dispatch of the parser loop: the active    *)
(* state's char, eol or eof hook, together with every enterState,          *)
(* exitState and return hook it runs synchronously.                        *)
(***************************************************************************)
EXTENDS Integers, Sequences, FiniteSets, TLC

\* ------------------------------------------------------------------------
\* Bounds of the model
\* ------------------------------------------------------------------------

\* Longest attribute text that is enumerated exhaustively over BodyAlphabet.
MaxBody == 3

\* ------------------------------------------------------------------------
\* Character classes
\* ------------------------------------------------------------------------

\* charCodeAt beyond the buffer is NaN in the source.
EOFCode == "EOF"

\* CODE.BACKTICK (a backtick cannot be written in a string of this module).
BACKTICK == "BACKTICK"

Whitespace == {" ", "\t", "\n", "\r"}

Digits == {"0", "1", "2", "3", "4", "5", "6", "7", "8", "9"}

LowerLetters ==
  {"a", "b", "c", "d", "e", "f", "g", "h", "i", "j", "k", "l", "m",
   "n", "o", "p", "q", "r", "s", "t", "u", "v", "w", "x", "y", "z"}

UpperLetters ==
  {"A", "B", "C", "D", "E", "F", "G", "H", "I", "J", "K", "L", "M",
   "N", "O", "P", "Q", "R", "S", "T", "U", "V", "W", "X", "Y", "Z"}

\* \w of the regular expression engine.
WordChars == Digits \cup LowerLetters \cup UpperLetters \cup {"_"}

isWhitespaceCode(code) == code \in Whitespace

Min(a, b) == IF a < b THEN a ELSE b

\* data.charCodeAt(i)
CodeAt(s, i) == IF i >= 0 /\ i < Len(s) THEN s[i + 1] ELSE EOFCode

\* s.startsWith(lit, i)
LitAt(s, i, lit) == \A k \in 1..Len(lit) : CodeAt(s, i + k - 1) = lit[k]

\* First offset >= i that does not hold a whitespace byte (\s* of the
\* operator pattern, Parser.consumeWhitespace).
RECURSIVE SkipSpaces(_, _)
SkipSpaces(s, i) ==
  IF i < Len(s) /\ isWhitespaceCode(CodeAt(s, i)) THEN SkipSpaces(s, i + 1) ELSE i

\* \b of the regular expression engine, at offset i.
WordBoundary(s, i) == (CodeAt(s, i - 1) \in WordChars) # (CodeAt(s, i) \in WordChars)

\* ------------------------------------------------------------------------
\* EXPRESSION.ts: buildOperatorPattern
\* ------------------------------------------------------------------------

BinaryChars == {"*", "%", "<", "&", "^", "|", "?", ":"}

WordTerminatorLike == {"=", "/", ",", ";", ":", ">"}

INSTANCEOF == <<"i", "n", "s", "t", "a", "n", "c", "e", "o", "f">>

\* (?=\s+[^=/,;:>]) at offset i: the greedy \s+ may give back whitespace, and
\* the negated class then matches a whitespace byte.
WordOperatorLookahead(s, i) ==
  LET r == SkipSpaces(s, i) IN
    /\ r > i
    /\ \/ r < Len(s) /\ CodeAt(s, r) \notin WordTerminatorLike
       \/ r - i >= 2

\* Length of the first alternative of `binary` that matches at offset q, or -1.
\*   [*%<&^|?:]  |  =[=>]  |  /(?:\b|\s)  |  \.(?=\s)  |  \bin(?:stanceof)(?=...)
BinaryAt(s, q) ==
  LET c == CodeAt(s, q) IN
  IF c \in BinaryChars THEN 1
  ELSE IF c = "=" /\ CodeAt(s, q + 1) \in {"=", ">"} THEN 2
  ELSE IF c = "/" /\ WordBoundary(s, q + 1) THEN 1
  ELSE IF c = "/" /\ isWhitespaceCode(CodeAt(s, q + 1)) THEN 2
  ELSE IF c = "." /\ isWhitespaceCode(CodeAt(s, q + 1)) THEN 1
  ELSE IF /\ WordBoundary(s, q)
          /\ LitAt(s, q, INSTANCEOF)
          /\ WordOperatorLookahead(s, q + Len(INSTANCEOF))
       THEN Len(INSTANCEOF)
  ELSE -1

\* Length of the operator alternation of lookAheadPattern at offset q, or -1:
\*   binary | \+ | -[^-] (concise) or - (html) | > (concise) or >[>=] (html)
OperatorAt(s, q, isConcise) ==
  LET c == CodeAt(s, q)
      n == CodeAt(s, q + 1)
  IN
  IF BinaryAt(s, q) >= 0 THEN BinaryAt(s, q)
  ELSE IF c = "+" THEN 1
  ELSE IF c = "-" /\ isConcise /\ n # EOFCode /\ n # "-" THEN 2
  ELSE IF c = "-" /\ ~isConcise THEN 1
  ELSE IF c = ">" /\ isConcise THEN 1
  ELSE IF c = ">" /\ ~isConcise /\ n \in {">", "="} THEN 2
  ELSE -1

\* The class of opening brackets with the two modes exchanged.
OpeningBracketsExchanged(isConcise) ==
  IF isConcise THEN {"[", "{", "("} ELSE {"{", "("}

\* Bytes that continue an expression after whitespace: [{(] in concise mode,
\* [[{(] in html mode.
OpeningBrackets(isConcise) == IF isConcise THEN {"{", "("} ELSE {"[", "{", "("}

\* Length of the match of lookAheadPattern at offset pos, or -1:
\*   \s*(?:operator)\s*  |  \s+(?=[...{(])
lookAheadPattern(s, pos, isConcise) ==
  LET q == SkipSpaces(s, pos)
      op == OperatorAt(s, q, isConcise)
  IN
  IF op >= 0 THEN SkipSpaces(s, q + op) - pos
  ELSE IF q > pos /\ CodeAt(s, q) \in OpeningBrackets(isConcise) THEN q - pos
  ELSE -1

UnaryWords ==
  { <<"!">>,
    <<"a", "s", "y", "n", "c">>,
    <<"a", "w", "a", "i", "t">>,
    <<"c", "l", "a", "s", "s">>,
    <<"f", "u", "n", "c", "t", "i", "o", "n">>,
    <<"n", "e", "w">>,
    <<"t", "y", "p", "e", "o", "f">>,
    <<"v", "o", "i", "d">> }

\* (?<=unary|binary|[^-]-|[^+]\+) at offset pos: some alternative matches
\* the text that ends at pos.
lookBehindPattern(s, pos) ==
  \/ \E w \in UnaryWords : pos >= Len(w) /\ LitAt(s, pos - Len(w), w)
  \/ pos >= 1 /\ CodeAt(s, pos - 1) \in BinaryChars
  \/ pos >= 2 /\ CodeAt(s, pos - 2) = "=" /\ CodeAt(s, pos - 1) \in {"=", ">"}
  \/ pos >= 1 /\ CodeAt(s, pos - 1) = "/" /\ WordBoundary(s, pos)
  \/ pos >= 2 /\ CodeAt(s, pos - 2) = "/" /\ isWhitespaceCode(CodeAt(s, pos - 1))
  \/ pos >= 1 /\ CodeAt(s, pos - 1) = "." /\ isWhitespaceCode(CodeAt(s, pos))
  \/ /\ pos >= Len(INSTANCEOF)
     /\ WordBoundary(s, pos - Len(INSTANCEOF))
     /\ LitAt(s, pos - Len(INSTANCEOF), INSTANCEOF)
     /\ WordOperatorLookahead(s, pos)
  \/ pos >= 2 /\ CodeAt(s, pos - 1) = "-" /\ CodeAt(s, pos - 2) # "-"
  \/ pos >= 2 /\ CodeAt(s, pos - 1) = "+" /\ CodeAt(s, pos - 2) # "+"

\* pattern.exec(data) with lastIndex = pos (sticky): the length of the match,
\* 0 for a match of the look behind alone, -1 for no match.
buildOperatorPattern(s, pos, isConcise) ==
  IF lookAheadPattern(s, pos, isConcise) >= 0 THEN lookAheadPattern(s, pos, isConcise)
  ELSE IF lookBehindPattern(s, pos) THEN 0
  ELSE -1


\* ------------------------------------------------------------------------
\* Ranges, events, frames
\* ------------------------------------------------------------------------

\* `undefined` where the source holds a Range.
NoRange == [start |-> -1, end |-> -1]

Range(start, end) == [start |-> start, end |-> end]

\* attr.args: false, true, or the retained {start, end, value} of a method.
NoArgs == [kind |-> "false", start |-> -1, end |-> -1, value |-> NoRange]

\* One handler invocation.  `owner` is the start offset of the frame whose
\* hook made the call (history only: it identifies the attribute).
Event(type, start, end, owner) ==
  [type |-> type, start |-> start, end |-> end, value |-> NoRange,
   code |-> "", bound |-> FALSE,
   params |-> NoRange, paramsValue |-> NoRange,
   body |-> NoRange, bodyValue |-> NoRange,
   owner |-> owner]

\* expression.terminator: a number, or a list of numbers and byte sequences.
TerminatorCode(code) == [isNumber |-> TRUE, code |-> code, list |-> <<>>]

TerminatorList(list) == [isNumber |-> FALSE, code |-> "", list |-> list]

HTML_VALUE_TERMINATORS == TerminatorList(<< <<">">>, <<",">>, <<"/", ">">> >>)

CONCISE_VALUE_TERMINATORS == TerminatorList(<< <<"]">>, <<";">>, <<",">> >>)

HTML_NAME_TERMINATORS ==
  TerminatorList(<< <<">">>, <<",">>, <<"(">>, <<"=">>, <<":", "=">>, <<"/", ">">> >>)

CONCISE_NAME_TERMINATORS ==
  TerminatorList(<< <<"]">>, <<";">>, <<"=">>, <<",">>, <<"(">>, <<":", "=">> >>)

\* A frame of the state stack.  Every frame carries every field so that the
\* stack is a sequence of records of one shape; a state reads its own fields.
Frame(state, start) ==
  [state |-> state, start |-> start, end |-> start,
   \* AttrMeta
   stage |-> "UNKNOWN", name |-> NoRange, valueStart |-> start,
   args |-> NoArgs, spread |-> FALSE, bound |-> FALSE,
   \* ExpressionMeta
   groupStack |-> <<>>, terminator |-> TerminatorCode("-1"),
   skipOperators |-> FALSE, terminatedByEOL |-> FALSE,
   terminatedByWhitespace |-> FALSE,
   \* STRING, REGULAR_EXPRESSION
   quoteCharCode |-> "\"", isInCharSet |-> FALSE]

\* An open tag (Parser.activeTag and its parents).
Tag(start, indent, concise) ==
  [start |-> start, indent |-> indent, concise |-> concise,
   hasNestedIndent |-> FALSE, nestedIndent |-> <<>>,
   ending |-> "tag", bodyMode |-> "HTML"]

\* ------------------------------------------------------------------------
\* Parser core: position primitives
\* ------------------------------------------------------------------------

maxPos(P) == Len(P.data)

Top(P) == P.stack[Len(P.stack)]

SetTop(P, frame) == [P EXCEPT !.stack[Len(P.stack)] = frame]

skip(P, offset) == [P EXCEPT !.pos = @ + offset]

rewind(P, offset) == [P EXCEPT !.pos = @ - offset]

lookAtCharCodeAhead(P, offset) == CodeAt(P.data, P.pos + offset)

\* lookAheadFor(str): str follows the current byte.
lookAheadFor(P, str) ==
  P.pos + 1 + Len(str) <= maxPos(P) /\ LitAt(P.data, P.pos + 1, str)

consumeWhitespace(P) == [P EXCEPT !.pos = SkipSpaces(P.data, P.pos)]

\* consumeWhitespaceIfBefore(str): TRUE when str follows the whitespace at pos.
WhitespaceIsBefore(P, str) == LitAt(P.data, SkipSpaces(P.data, P.pos), str)

consumeWhitespaceIfBefore(P, str) ==
  IF WhitespaceIsBefore(P, str) THEN consumeWhitespace(P) ELSE P

\* First offset >= i that holds no whitespace other than a line break.
RECURSIVE SkipSpacesOnLine(_, _)
SkipSpacesOnLine(s, i) ==
  IF i < Len(s) /\ isWhitespaceCode(CodeAt(s, i)) /\ CodeAt(s, i) # "\n"
  THEN SkipSpacesOnLine(s, i + 1)
  ELSE i

\* consumeWhitespaceOnLine(0) succeeds when only whitespace is left on the line.
OnlyWhitespaceOnLine(P) ==
  CodeAt(P.data, SkipSpacesOnLine(P.data, P.pos)) \in {"\n", EOFCode}

consumeWhitespaceOnLine(P) ==
  IF OnlyWhitespaceOnLine(P)
  THEN [P EXCEPT !.pos = SkipSpacesOnLine(P.data, P.pos)]
  ELSE P

\* Offset of the last non-whitespace byte before pos, or -1.
RECURSIVE PreviousNonWhitespace(_, _)
PreviousNonWhitespace(s, i) ==
  IF i >= 0 /\ isWhitespaceCode(CodeAt(s, i)) THEN PreviousNonWhitespace(s, i - 1) ELSE i

getPreviousNonWhitespaceCharCode(P) ==
  CodeAt(P.data, PreviousNonWhitespace(P.data, P.pos - 1))

\* ------------------------------------------------------------------------
\* Notifiers and handlers
\* ------------------------------------------------------------------------

\* this.handlers.onX?.(event): a state calls the handler directly.
Invoke(P, event) == [P EXCEPT !.events = Append(@, event)]

\* notifyError without its latch: the error is reported and the parse goes on.
notifyErrorWithoutLatch(P, pos, errorCode) ==
  [P EXCEPT
     !.events = Append(@, [Event("error", pos, Min(P.pos + 1, maxPos(P)), Top(P).start)
                             EXCEPT !.code = errorCode])]

notifyError(P, pos, errorCode) ==
  IF P.hasError THEN P
  ELSE [P EXCEPT
          !.hasError = TRUE,
          !.events = Append(@, [Event("error", pos, Min(P.pos + 1, maxPos(P)), Top(P).start)
                                  EXCEPT !.code = errorCode])]

notifyCloseTag(P, start, end) ==
  IF P.hasError THEN P
  ELSE [P EXCEPT !.events = Append(@, Event("closeTag", start, end, start))]

notifyFinish(P) == [P EXCEPT !.events = Append(@, Event("finish", -1, -1, -1))]

\* emitError(range | pos, code, message): the error is reported at the start
\* of the range; the latch of notifyError ends the parse.
emitError(P, start, code) == notifyError(P, start, code)

\* closeTag(start, end, value): the active tag is closed.
closeTag(P, start, end) ==
  notifyCloseTag([P EXCEPT !.tags = SubSeq(@, 1, Len(@) - 1)], start, end)

\* htmlEOF: at end of input every tag still open is closed at pos.
RECURSIVE htmlEOF(_)
htmlEOF(P) ==
  IF P.tags = <<>> THEN P ELSE htmlEOF(closeTag(P, P.pos, P.pos))

\* ------------------------------------------------------------------------
\* Parser core: the state stack
\* ------------------------------------------------------------------------

\* exitState pops the active frame and runs the parent's return hook, which
\* may exit in turn.
RECURSIVE exitState(_)

\* enterState(state): push a frame that starts at pos.
enterState(P, state) == [P EXCEPT !.stack = Append(@, Frame(state, P.pos))]

Parent(P) == P.stack[Len(P.stack) - 1]

\* ------------------------------------------------------------------------
\* EXPRESSION.ts
\* ------------------------------------------------------------------------

checkForTerminators(P, code, terminators) ==
  \E k \in 1..Len(terminators) :
    /\ terminators[k][1] = code
    /\ \A i \in 2..Len(terminators[k]) :
         CodeAt(P.data, P.pos + i - 1) = terminators[k][i]

\* typeof terminator === "number" ? terminator === code : checkForTerminators(..)
IsTerminator(P, code, terminator) ==
  IF terminator.isNumber
  THEN terminator.code = code
  ELSE checkForTerminators(P, code, terminator.list)

\* canCharCodeBeFollowedByDivision without the test for digits.
canCharCodeBeFollowedByDivisionNoDigits(code) ==
  \/ code \in UpperLetters
  \/ code \in LowerLetters
  \/ code \in {"%", ")", ".", "<", "]", "}"}

canCharCodeBeFollowedByDivision(code) ==
  \/ code \in Digits
  \/ code \in UpperLetters
  \/ code \in LowerLetters
  \/ code \in {"%", ")", ".", "<", "]", "}"}

\* expression.groupStack.push(close)
PushGroup(P, close) == SetTop(P, [Top(P) EXCEPT !.groupStack = Append(@, close)])

\* The closing bytes without the comparison with the expected byte.
CloseGroupUnchecked(P, code) ==
  LET expression == Top(P)
      depth == Len(expression.groupStack)
  IN
  IF depth = 0 THEN emitError(P, expression.start, "INVALID_EXPRESSION")
  ELSE SetTop(P, [expression EXCEPT !.groupStack = SubSeq(@, 1, depth - 1)])

\* case CLOSE_PAREN, CLOSE_SQUARE_BRACKET, CLOSE_CURLY_BRACE
CloseGroup(P, code) ==
  LET expression == Top(P)
      depth == Len(expression.groupStack)
  IN
  IF depth = 0 THEN emitError(P, expression.start, "INVALID_EXPRESSION")
  ELSE LET expectedCode == expression.groupStack[depth]
           Q == SetTop(P, [expression EXCEPT !.groupStack = SubSeq(@, 1, depth - 1)])
       IN IF expectedCode # code
          THEN emitError(Q, expression.start, "INVALID_EXPRESSION")
          ELSE Q

\* case FORWARD_SLASH
ForwardSlash(P) ==
  CASE lookAtCharCodeAhead(P, 1) = "/" -> skip(enterState(P, "JS_COMMENT_LINE"), 1)
    [] lookAtCharCodeAhead(P, 1) = "*" -> skip(enterState(P, "JS_COMMENT_BLOCK"), 1)
    [] OTHER ->
         IF ~canCharCodeBeFollowedByDivision(getPreviousNonWhitespaceCharCode(P))
         THEN enterState(P, "REGULAR_EXPRESSION")
         ELSE P

\* switch (code) of EXPRESSION.char
ExpressionSwitch(P, code) ==
  CASE code = "\"" -> enterState(P, "STRING")
    [] code = "'" ->
         LET Q == enterState(P, "STRING") IN
           SetTop(Q, [Top(Q) EXCEPT !.quoteCharCode = code])
    [] code = BACKTICK -> enterState(P, "TEMPLATE_STRING")
    [] code = "/" -> ForwardSlash(P)
    [] code = "(" -> PushGroup(P, ")")
    [] code = "[" -> PushGroup(P, "]")
    [] code = "{" -> PushGroup(P, "}")
    [] code \in {")", "]", "}"} -> CloseGroup(P, code)
    [] OTHER -> P

\* The whitespace branch of EXPRESSION.char with skipOperators false.
OperatorRule(P) ==
  LET match == buildOperatorPattern(P.data, P.pos, P.isConcise) IN
  IF match = 0 THEN [consumeWhitespace(P) EXCEPT !.pos = @ - 1]
  ELSE IF match > 0 THEN [P EXCEPT !.pos = @ + match - 1]
  ELSE exitState(P)

\* EXPRESSION.char with the terminator tested at every depth.
ExpressionCharTerminatorAtAnyDepth(P, code) ==
  LET expression == Top(P) IN
  IF expression.groupStack = <<>>
        /\ expression.terminatedByWhitespace /\ isWhitespaceCode(code)
  THEN IF expression.skipOperators THEN exitState(P) ELSE OperatorRule(P)
  ELSE IF IsTerminator(P, code, expression.terminator)
  THEN exitState(P)
  ELSE ExpressionSwitch(P, code)

ExpressionChar(P, code) ==
  LET expression == Top(P) IN
  IF expression.groupStack = <<>>
        /\ expression.terminatedByWhitespace /\ isWhitespaceCode(code)
  THEN IF expression.skipOperators THEN exitState(P) ELSE OperatorRule(P)
  ELSE IF expression.groupStack = <<>>
            /\ IsTerminator(P, code, expression.terminator)
  THEN exitState(P)
  ELSE ExpressionSwitch(P, code)

ExpressionEol(P) ==
  LET expression == Top(P) IN
  IF expression.groupStack = <<>>
        /\ (expression.terminatedByWhitespace \/ expression.terminatedByEOL)
  THEN exitState(P)
  ELSE P

ExpressionEof(P) ==
  LET expression == Top(P)
      parent == Parent(P)
  IN
  IF expression.groupStack = <<>> /\ (P.isConcise \/ expression.terminatedByEOL)
  THEN exitState(P)
  ELSE CASE parent.state = "ATTRIBUTE" ->
              emitError(P, expression.start, "MALFORMED_OPEN_TAG")
         [] parent.state = "TAG_NAME" ->
              emitError(P, expression.start, "MALFORMED_OPEN_TAG")
         [] parent.state = "PLACEHOLDER" ->
              emitError(P, expression.start, "MALFORMED_PLACEHOLDER")
         [] OTHER ->
              emitError(P, expression.start, "INVALID_EXPRESSION")

\* ------------------------------------------------------------------------
\* ATTRIBUTE (part_000)
\* ------------------------------------------------------------------------

ensureAttrName(P) ==
  LET attr == Top(P) IN
  IF attr.name = NoRange
  THEN Invoke(P, Event("attrName", attr.start, attr.start, attr.start))
  ELSE P

\* The `=`, `:=` and `...` branch without attr.bound = true.
AttributeValueTriggerUnbound(P, code) ==
  LET P1 == SetTop(P, [Top(P) EXCEPT !.valueStart = P.pos])
      P2 == CASE code = ":" -> consumeWhitespace(skip(ensureAttrName(P1), 2))
              [] code = "." ->
                   skip(SetTop(P1, [Top(P1) EXCEPT !.spread = TRUE]), 3)
              [] OTHER ->
                   consumeWhitespace(skip(ensureAttrName(P1), 1))
      P3 == enterState(SetTop(P2, [Top(P2) EXCEPT !.stage = "VALUE"]), "EXPRESSION")
      expr == [Top(P3) EXCEPT
                 !.terminatedByWhitespace = TRUE,
                 !.terminator = IF P.isConcise
                                THEN CONCISE_VALUE_TERMINATORS
                                ELSE HTML_VALUE_TERMINATORS]
  IN rewind(SetTop(P3, expr), 1)

\* The `=`, `:=` and `...` branch of ATTRIBUTE.char.
AttributeValueTrigger(P, code) ==
  LET P1 == SetTop(P, [Top(P) EXCEPT !.valueStart = P.pos])
      P2 == CASE code = ":" ->
                   LET Q == ensureAttrName(P1) IN
                     consumeWhitespace(skip(SetTop(Q, [Top(Q) EXCEPT !.bound = TRUE]), 2))
              [] code = "." ->
                   skip(SetTop(P1, [Top(P1) EXCEPT !.spread = TRUE]), 3)
              [] OTHER ->
                   consumeWhitespace(skip(ensureAttrName(P1), 1))
      P3 == enterState(SetTop(P2, [Top(P2) EXCEPT !.stage = "VALUE"]), "EXPRESSION")
      expr == [Top(P3) EXCEPT
                 !.terminatedByWhitespace = TRUE,
                 !.terminator = IF P.isConcise
                                THEN CONCISE_VALUE_TERMINATORS
                                ELSE HTML_VALUE_TERMINATORS]
  IN rewind(SetTop(P3, expr), 1)

\* The `(` branch of ATTRIBUTE.char.
AttributeArgumentTrigger(P) ==
  LET Q == ensureAttrName(P)
      P1 == skip(SetTop(Q, [Top(Q) EXCEPT !.stage = "ARGUMENT"]), 1)
      P2 == enterState(P1, "EXPRESSION")
  IN rewind(SetTop(P2, [Top(P2) EXCEPT !.terminator = TerminatorCode(")")]), 1)

\* The `{` branch of ATTRIBUTE.char.
AttributeBlockTrigger(P) ==
  LET Q == ensureAttrName(P)
      P1 == skip(SetTop(Q, [Top(Q) EXCEPT !.stage = "BLOCK"]), 1)
      P2 == enterState(P1, "EXPRESSION")
  IN rewind(SetTop(P2, [Top(P2) EXCEPT
                          !.terminatedByWhitespace = FALSE,
                          !.terminator = TerminatorCode("}")]), 1)

\* The stage === UNKNOWN branch of ATTRIBUTE.char.
AttributeNameTrigger(P) ==
  LET P1 == enterState(SetTop(P, [Top(P) EXCEPT !.stage = "NAME"]), "EXPRESSION")
      expr == [Top(P1) EXCEPT
                 !.terminatedByWhitespace = TRUE,
                 !.skipOperators = TRUE,
                 !.terminator = IF P.isConcise
                                THEN CONCISE_NAME_TERMINATORS
                                ELSE HTML_NAME_TERMINATORS]
  IN rewind(SetTop(P1, expr), 1)

\* ATTRIBUTE.char with `{` also entering BLOCK when no name was parsed.
AttributeCharBlockWithoutName(P, code) ==
  LET attr == Top(P) IN
  IF isWhitespaceCode(code) THEN P
  ELSE IF \/ code = "="
          \/ code = ":" /\ lookAtCharCodeAhead(P, 1) = "="
          \/ code = "." /\ lookAheadFor(P, <<".", ".">>)
  THEN AttributeValueTrigger(P, code)
  ELSE IF code = "(" THEN AttributeArgumentTrigger(P)
  ELSE IF code = "{" /\ (attr.name = NoRange \/ attr.args.kind # "false")
  THEN AttributeBlockTrigger(P)
  ELSE IF attr.stage = "UNKNOWN" THEN AttributeNameTrigger(P)
  ELSE exitState(P)

AttributeChar(P, code) ==
  LET attr == Top(P) IN
  IF isWhitespaceCode(code) THEN P
  ELSE IF \/ code = "="
          \/ code = ":" /\ lookAtCharCodeAhead(P, 1) = "="
          \/ code = "." /\ lookAheadFor(P, <<".", ".">>)
  THEN AttributeValueTrigger(P, code)
  ELSE IF code = "(" THEN AttributeArgumentTrigger(P)
  ELSE IF code = "{" /\ attr.args.kind # "false" THEN AttributeBlockTrigger(P)
  ELSE IF attr.stage = "UNKNOWN" THEN AttributeNameTrigger(P)
  ELSE exitState(P)

AttributeEol(P) == IF P.isConcise THEN exitState(P) ELSE P

AttributeEof(P) ==
  IF P.isConcise THEN exitState(P)
  ELSE emitError(P, Top(P).start, "MALFORMED_OPEN_TAG")

\* case ATTR_STAGE.NAME without the call of onAttrName.
AttributeReturnNameSilent(P, child) ==
  SetTop(P, [Top(P) EXCEPT !.name = Range(child.start, child.end)])

\* case ATTR_STAGE.NAME of ATTRIBUTE.return
AttributeReturnName(P, child) ==
  LET attr == [Top(P) EXCEPT !.name = Range(child.start, child.end)] IN
    Invoke(SetTop(P, attr), Event("attrName", attr.name.start, attr.name.end, attr.start))

\* case ATTR_STAGE.ARGUMENT without the test of attr.args.
AttributeReturnArgumentAgain(P, child) ==
  LET attr == Top(P)
      start == child.start - 1
      P1 == skip(P, 1)
      end == P1.pos
      value == Range(child.start, child.end)
  IN IF WhitespaceIsBefore(P1, <<"{">>)
     THEN LET P2 == consumeWhitespaceIfBefore(P1, <<"{">>) IN
            SetTop(P2, [attr EXCEPT
                          !.args = [kind |-> "range", start |-> start,
                                    end |-> end, value |-> value]])
     ELSE Invoke(SetTop(P1, [attr EXCEPT !.args = [NoArgs EXCEPT !.kind = "true"]]),
                 [Event("attrArgs", start, end, attr.start) EXCEPT !.value = value])

\* case ATTR_STAGE.ARGUMENT of ATTRIBUTE.return
AttributeReturnArgument(P, child) ==
  LET attr == Top(P) IN
  IF attr.args.kind # "false"
  THEN emitError(P, child.start, "ILLEGAL_ATTRIBUTE_ARGUMENT")
  ELSE LET start == child.start - 1
           P1 == skip(P, 1)
           end == P1.pos
           value == Range(child.start, child.end)
       IN IF WhitespaceIsBefore(P1, <<"{">>)
          THEN LET P2 == consumeWhitespaceIfBefore(P1, <<"{">>) IN
                 SetTop(P2, [attr EXCEPT
                               !.args = [kind |-> "range", start |-> start,
                                         end |-> end, value |-> value]])
          ELSE Invoke(SetTop(P1, [attr EXCEPT !.args = [NoArgs EXCEPT !.kind = "true"]]),
                      [Event("attrArgs", start, end, attr.start) EXCEPT !.value = value])

\* case ATTR_STAGE.BLOCK of ATTRIBUTE.return
AttributeReturnBlock(P, child) ==
  LET attr == Top(P)
      params == attr.args
      start == params.start
      P1 == skip(P, 1)
      end == P1.pos
      event == [Event("attrMethod", start, end, attr.start) EXCEPT
                  !.params = Range(params.start, params.end),
                  !.paramsValue = params.value,
                  !.body = Range(child.start - 1, end),
                  !.bodyValue = Range(child.start, child.end)]
  IN exitState(Invoke(P1, event))

\* case ATTR_STAGE.VALUE without the test for an empty child.
AttributeReturnValueUnchecked(P, child) ==
  LET attr == Top(P)
      value == Range(child.start, child.end)
  IN
  IF attr.spread
  THEN exitState(Invoke(P, [Event("attrSpread", attr.valueStart, child.end, attr.start)
                              EXCEPT !.value = value]))
  ELSE exitState(Invoke(P, [Event("attrValue", attr.valueStart, child.end, attr.start)
                              EXCEPT !.value = value, !.bound = attr.bound]))

\* case ATTR_STAGE.VALUE of ATTRIBUTE.return
AttributeReturnValue(P, child) ==
  LET attr == Top(P)
      value == Range(child.start, child.end)
  IN
  IF child.start = child.end
  THEN emitError(P, child.start, "ILLEGAL_ATTRIBUTE_VALUE")
  ELSE IF attr.spread
  THEN exitState(Invoke(P, [Event("attrSpread", attr.valueStart, child.end, attr.start)
                              EXCEPT !.value = value]))
  ELSE exitState(Invoke(P, [Event("attrValue", attr.valueStart, child.end, attr.start)
                              EXCEPT !.value = value, !.bound = attr.bound]))

AttributeReturn(P, child) ==
  CASE Top(P).stage = "NAME" -> AttributeReturnName(P, child)
    [] Top(P).stage = "ARGUMENT" -> AttributeReturnArgument(P, child)
    [] Top(P).stage = "BLOCK" -> AttributeReturnBlock(P, child)
    [] Top(P).stage = "VALUE" -> AttributeReturnValue(P, child)
    [] OTHER -> P

\* ------------------------------------------------------------------------
\* JS_COMMENT_LINE.ts
\* ------------------------------------------------------------------------

\* checkForClosingTag: inside parsed-text content, `</` ends the comment.
checkForClosingTag(P) ==
  IF lookAtCharCodeAhead(P, 1) = "/" THEN exitState(P) ELSE P

\* The loop calls char(code, frame) (EXPRESSION.char(code, expression),
\* ATTRIBUTE.char(code, attr)): an argument is a char code or a frame, and a
\* frame is identical (===) to no char code.
\* char(_, code): the parameter that the hook names code is the second
\* argument of the call.
CommentLineChar(P, ignored, code) ==
  IF /\ ~P.isConcise
     /\ code.type = "code" /\ code.value = "<"
     /\ P.textParseMode = "parsed-text"
  THEN checkForClosingTag(P)
  ELSE P

CommentLineEol(P) == exitState(P)

CommentLineEof(P) == exitState(P)

\* ------------------------------------------------------------------------
\* States of the parser that EXPRESSION, ATTRIBUTE and CONCISE_HTML_CONTENT
\* enter or return to
\* ------------------------------------------------------------------------

ActiveTag(P) == P.tags[Len(P.tags)]

\* STRING: up to the closing quote; a backslash escapes the next byte.
StringHook(P, kind, code) ==
  CASE kind # "char" -> emitError(P, Top(P).start, "MALFORMED_OPEN_TAG")
    [] kind = "char" /\ code = "\\" -> skip(P, 1)
    [] kind = "char" /\ code = Top(P).quoteCharCode -> exitState(skip(P, 1))
    [] OTHER -> P

\* TEMPLATE_STRING: up to the closing backtick; `${` enters EXPRESSION with
\* terminator `}` and a seeded group expectation.
TemplateStringHook(P, kind, code) ==
  CASE kind = "eof" -> emitError(P, Top(P).start, "MALFORMED_OPEN_TAG")
    [] kind = "char" /\ code = "\\" -> skip(P, 1)
    [] kind = "char" /\ code = BACKTICK -> exitState(skip(P, 1))
    [] kind = "char" /\ code = "$" /\ lookAtCharCodeAhead(P, 1) = "{" ->
         LET Q == enterState(skip(P, 2), "EXPRESSION") IN
           rewind(SetTop(Q, [Top(Q) EXCEPT
                               !.terminator = TerminatorCode("}"),
                               !.groupStack = <<"}">>]), 1)
    [] OTHER -> P

\* Offset of the first byte at or after i that is not a flag letter.
RECURSIVE SkipFlags(_, _)
SkipFlags(s, i) ==
  IF CodeAt(s, i) \in LowerLetters THEN SkipFlags(s, i + 1) ELSE i

\* REGULAR_EXPRESSION: up to an unescaped `/` outside a character class;
\* trailing flag letters are consumed.
RegularExpressionHook(P, kind, code) ==
  CASE kind # "char" -> emitError(P, Top(P).start, "INVALID_EXPRESSION")
    [] kind = "char" /\ code = "\\" -> skip(P, 1)
    [] kind = "char" /\ code = "[" -> SetTop(P, [Top(P) EXCEPT !.isInCharSet = TRUE])
    [] kind = "char" /\ code = "]" -> SetTop(P, [Top(P) EXCEPT !.isInCharSet = FALSE])
    [] kind = "char" /\ code = "/" /\ ~Top(P).isInCharSet ->
         exitState([P EXCEPT !.pos = SkipFlags(P.data, P.pos + 1)])
    [] OTHER -> P

\* JS_COMMENT_BLOCK: ends after `*/`.
CommentBlockHook(P, kind, code) ==
  CASE kind = "eof" -> emitError(P, Top(P).start, "MALFORMED_COMMENT")
    [] kind = "char" /\ code = "*" /\ lookAtCharCodeAhead(P, 1) = "/" ->
         exitState(skip(P, 2))
    [] OTHER -> P

\* INLINE_SCRIPT and BEGIN_DELIMITED_HTML_BLOCK: the rest of the line.
LineChildHook(P, kind) == IF kind = "char" THEN P ELSE exitState(P)

TagNameTerminators == {">", "/", "=", "(", ";", ",", "[", "]"}

\* TAG_NAME: up to whitespace or a byte that ends a name.
TagNameHook(P, kind, code) ==
  IF kind = "char" /\ ~isWhitespaceCode(code) /\ code \notin TagNameTerminators
  THEN P
  ELSE exitState(P)

\* OPEN_TAG.enter: the new tag becomes the active tag, with the indent of
\* its line.
enterOpenTag(P) ==
  [enterState(P, "OPEN_TAG") EXCEPT !.tags = Append(@, Tag(P.pos, P.indent, P.isConcise))]

enterAttribute(P) == rewind(enterState(P, "ATTRIBUTE"), 1)

\* OPEN_TAG: the tag name, then one ATTRIBUTE per non-whitespace byte that
\* does not end the tag (`>` and `/>` in html mode, `;` and the end of the
\* line in concise mode).
OpenTagChar(P, code) ==
  IF Top(P).name = NoRange THEN rewind(enterState(P, "TAG_NAME"), 1)
  ELSE IF isWhitespaceCode(code) \/ code = "," THEN P
  ELSE IF P.isConcise
  THEN CASE code = ";" -> exitState(skip(P, 1))
         [] code \in {"[", "]"} -> P
         [] OTHER -> enterAttribute(P)
  ELSE CASE code = ">" -> exitState(skip(P, 1))
         [] code = "/" /\ lookAtCharCodeAhead(P, 1) = ">" ->
              exitState(skip([P EXCEPT !.tags[Len(P.tags)].ending = "selfClosed"], 2))
         [] OTHER -> enterAttribute(P)

OpenTagHook(P, kind, code) ==
  CASE kind = "char" -> OpenTagChar(P, code)
    [] kind = "eol" -> IF P.isConcise THEN exitState(P) ELSE P
    [] OTHER -> IF P.isConcise THEN exitState(P)
                ELSE emitError(P, Top(P).start, "MALFORMED_OPEN_TAG")

\* OPEN_TAG.return: the tag name is reported to onOpenTagName, whose handler
\* may declare the tag open-only and may switch its body to parsed text
\* (setParseOptions).  The handler of the model does so by the name: `img`
\* is open-only, `script` has a parsed-text body, `hr` is both.
OpenTagReturn(P, child) ==
  IF child.state = "TAG_NAME"
  THEN LET tagName == SubSeq(P.data, child.start + 1, child.end)
           Q == SetTop(P, [Top(P) EXCEPT !.name = Range(child.start, child.end)])
       IN [Q EXCEPT
             !.tags[Len(P.tags)].ending =
               IF tagName \in {<<"i", "m", "g">>, <<"h", "r">>} THEN "openOnly" ELSE @,
             !.tags[Len(P.tags)].bodyMode =
               IF tagName \in {<<"s", "c", "r", "i", "p", "t">>, <<"h", "r">>}
               THEN "PARSED_TEXT" ELSE @]
  ELSE P

\* OPEN_TAG.exit: a self-closed html tag has no body and is closed at once.
OpenTagExit(P) ==
  IF ~ActiveTag(P).concise /\ ActiveTag(P).ending # "tag"
  THEN [P EXCEPT !.tags = SubSeq(@, 1, Len(@) - 1)]
  ELSE P

\* beginHtmlBlock: html (verbose) content inside concise content.
beginHtmlBlock(P) == [enterState(P, "HTML_CONTENT") EXCEPT !.isConcise = FALSE]

\* Offset of the first `>` at or after i, or -1.
RECURSIVE FindCloseAngle(_, _)
FindCloseAngle(s, i) ==
  IF i >= Len(s) THEN -1
  ELSE IF CodeAt(s, i) = ">" THEN i
  ELSE FindCloseAngle(s, i + 1)

\* HTML_CONTENT: `</name>` closes the active tag, `<` opens a tag, anything
\* else is text; the block ends with the line.
HtmlContentHook(P, kind, code) ==
  CASE kind # "char" -> exitState(P)
    [] kind = "char" /\ code = "<" /\ lookAtCharCodeAhead(P, 1) = "/"
         /\ P.tags # <<>> /\ FindCloseAngle(P.data, P.pos) >= 0 ->
         LET close == FindCloseAngle(P.data, P.pos) IN
           [closeTag(P, P.pos, close + 1) EXCEPT !.pos = close]
    [] kind = "char" /\ code = "<" /\ lookAtCharCodeAhead(P, 1) # "/" -> enterOpenTag(P)
    [] OTHER -> P

\* PARSED_TEXT_CONTENT: the body of a verbose tag whose body mode is
\* PARSED_TEXT is raw text up to the close tag; `//` starts a line comment.
ParsedTextHook(P, kind, code) ==
  CASE kind = "eof" -> exitState([P EXCEPT !.textParseMode = "html"])
    [] kind = "char" /\ code = "<" /\ lookAtCharCodeAhead(P, 1) = "/"
         /\ P.tags # <<>> /\ FindCloseAngle(P.data, P.pos) >= 0 ->
         LET close == FindCloseAngle(P.data, P.pos) IN
           exitState([closeTag(P, P.pos, close + 1) EXCEPT
                        !.pos = close + 1, !.textParseMode = "html"])
    [] kind = "char" /\ code = "/" /\ lookAtCharCodeAhead(P, 1) = "/" ->
         skip(enterState(P, "JS_COMMENT_LINE"), 1)
    [] OTHER -> P

\* ------------------------------------------------------------------------
\* CONCISE_HTML_CONTENT (part_000)
\* ------------------------------------------------------------------------

\* The loop with > in place of >=: a tag of the same indent stays open.
RECURSIVE CloseDeeper(_, _, _)
CloseDeeper(P, curIndent, indentStart) ==
  IF P.tags # <<>> /\ Len(ActiveTag(P).indent) > curIndent
  THEN CloseDeeper(closeTag(P, indentStart, indentStart), curIndent, indentStart)
  ELSE P

\* while (parentTag && parentTag.indent.length >= curIndent) closeTag(..)
RECURSIVE CloseDedented(_, _, _)
CloseDedented(P, curIndent, indentStart) ==
  IF P.tags # <<>> /\ Len(ActiveTag(P).indent) >= curIndent
  THEN CloseDedented(closeTag(P, indentStart, indentStart), curIndent, indentStart)
  ELSE P

\* The switch with the OPEN_TAG entered two bytes back instead of one.
ConciseDispatchRewindsTwice(P, code) ==
  CASE code = "<" ->
         beginHtmlBlock(rewind([P EXCEPT !.beginMixedMode = TRUE], 1))
    [] code = "$" /\ isWhitespaceCode(lookAtCharCodeAhead(P, 1)) ->
         enterState(skip(P, 1), "INLINE_SCRIPT")
    [] code = "-" ->
         IF lookAtCharCodeAhead(P, 1) = "-"
         THEN rewind(enterState(P, "BEGIN_DELIMITED_HTML_BLOCK"), 1)
         ELSE emitError(P, P.pos, "ILLEGAL_LINE_START")
    [] code = "/" ->
         CASE lookAtCharCodeAhead(P, 1) = "/" -> skip(enterState(P, "JS_COMMENT_LINE"), 1)
           [] lookAtCharCodeAhead(P, 1) = "*" -> skip(enterState(P, "JS_COMMENT_BLOCK"), 1)
           [] OTHER -> emitError(P, P.pos, "ILLEGAL_LINE_START")
    [] OTHER -> rewind(enterOpenTag(P), 2)

\* The switch without the default of case CODE.FORWARD_SLASH: a `/` that
\* starts no comment opens a tag.
ConciseDispatchSlashOpensTag(P, code) ==
  CASE code = "<" ->
         beginHtmlBlock(rewind([P EXCEPT !.beginMixedMode = TRUE], 1))
    [] code = "$" /\ isWhitespaceCode(lookAtCharCodeAhead(P, 1)) ->
         enterState(skip(P, 1), "INLINE_SCRIPT")
    [] code = "-" ->
         IF lookAtCharCodeAhead(P, 1) = "-"
         THEN rewind(enterState(P, "BEGIN_DELIMITED_HTML_BLOCK"), 1)
         ELSE emitError(P, P.pos, "ILLEGAL_LINE_START")
    [] code = "/" /\ lookAtCharCodeAhead(P, 1) = "/" ->
         skip(enterState(P, "JS_COMMENT_LINE"), 1)
    [] code = "/" /\ lookAtCharCodeAhead(P, 1) = "*" ->
         skip(enterState(P, "JS_COMMENT_BLOCK"), 1)
    [] OTHER -> rewind(enterOpenTag(P), 1)

\* switch (code) of CONCISE_HTML_CONTENT.char, and the OPEN_TAG after it.
ConciseDispatch(P, code) ==
  CASE code = "<" ->
         beginHtmlBlock(rewind([P EXCEPT !.beginMixedMode = TRUE], 1))
    [] code = "$" /\ isWhitespaceCode(lookAtCharCodeAhead(P, 1)) ->
         enterState(skip(P, 1), "INLINE_SCRIPT")
    [] code = "-" ->
         IF lookAtCharCodeAhead(P, 1) = "-"
         THEN rewind(enterState(P, "BEGIN_DELIMITED_HTML_BLOCK"), 1)
         ELSE emitError(P, P.pos, "ILLEGAL_LINE_START")
    [] code = "/" ->
         CASE lookAtCharCodeAhead(P, 1) = "/" -> skip(enterState(P, "JS_COMMENT_LINE"), 1)
           [] lookAtCharCodeAhead(P, 1) = "*" -> skip(enterState(P, "JS_COMMENT_BLOCK"), 1)
           [] OTHER -> emitError(P, P.pos, "ILLEGAL_LINE_START")
    [] OTHER -> rewind(enterOpenTag(P), 1)

\* The checks against the parent tag without the test for an undefined
\* nestedIndent: the first child line is compared like the later ones.
ConciseParentChecksFirstLine(P, code) ==
  LET parentTag == ActiveTag(P) IN
  IF parentTag.ending # "tag" THEN emitError(P, P.pos, "INVALID_BODY")
  ELSE IF parentTag.bodyMode = "PARSED_TEXT" /\ code # "-"
  THEN emitError(P, P.pos, "ILLEGAL_LINE_START")
  ELSE IF parentTag.nestedIndent # P.indent
  THEN emitError(P, P.pos, "BAD_INDENTATION")
  ELSE ConciseDispatch(P, code)

\* The checks against the parent tag with the indentation compared by length.
ConciseParentChecksByLength(P, code) ==
  LET parentTag == ActiveTag(P) IN
  IF parentTag.ending # "tag" THEN emitError(P, P.pos, "INVALID_BODY")
  ELSE IF parentTag.bodyMode = "PARSED_TEXT" /\ code # "-"
  THEN emitError(P, P.pos, "ILLEGAL_LINE_START")
  ELSE IF ~parentTag.hasNestedIndent
  THEN ConciseDispatch(
         [P EXCEPT !.tags[Len(P.tags)].hasNestedIndent = TRUE,
                   !.tags[Len(P.tags)].nestedIndent = P.indent], code)
  ELSE IF Len(parentTag.nestedIndent) # Len(P.indent)
  THEN emitError(P, P.pos, "BAD_INDENTATION")
  ELSE ConciseDispatch(P, code)

\* The checks against the parent tag with the indentation compared before
\* the first byte of the line is looked at.
ConciseParentChecksIndentFirst(P, code) ==
  LET parentTag == ActiveTag(P) IN
  IF parentTag.ending # "tag" THEN emitError(P, P.pos, "INVALID_BODY")
  ELSE IF parentTag.hasNestedIndent /\ parentTag.nestedIndent # P.indent
  THEN emitError(P, P.pos, "BAD_INDENTATION")
  ELSE IF parentTag.bodyMode = "PARSED_TEXT" /\ code # "-"
  THEN emitError(P, P.pos, "ILLEGAL_LINE_START")
  ELSE IF ~parentTag.hasNestedIndent
  THEN ConciseDispatch(
         [P EXCEPT !.tags[Len(P.tags)].hasNestedIndent = TRUE,
                   !.tags[Len(P.tags)].nestedIndent = P.indent], code)
  ELSE ConciseDispatch(P, code)

\* The checks of CONCISE_HTML_CONTENT.char against the parent tag.
ConciseParentChecks(P, code) ==
  LET parentTag == ActiveTag(P) IN
  IF parentTag.ending # "tag" THEN emitError(P, P.pos, "INVALID_BODY")
  ELSE IF parentTag.bodyMode = "PARSED_TEXT" /\ code # "-"
  THEN emitError(P, P.pos, "ILLEGAL_LINE_START")
  ELSE IF ~parentTag.hasNestedIndent
  THEN ConciseDispatch(
         [P EXCEPT !.tags[Len(P.tags)].hasNestedIndent = TRUE,
                   !.tags[Len(P.tags)].nestedIndent = P.indent], code)
  ELSE IF parentTag.nestedIndent # P.indent
  THEN emitError(P, P.pos, "BAD_INDENTATION")
  ELSE ConciseDispatch(P, code)

ConciseChar(P, code) ==
  IF isWhitespaceCode(code) THEN [P EXCEPT !.indent = Append(@, code)]
  ELSE LET curIndent == Len(P.indent)
           indentStart == P.pos - curIndent - 1
           P1 == CloseDedented(P, curIndent, indentStart)
       IN IF P1.tags = <<>> /\ curIndent # 0
          THEN emitError(P1, P1.pos, "BAD_INDENTATION")
          ELSE IF P1.tags # <<>>
          THEN ConciseParentChecks(P1, code)
          ELSE ConciseDispatch(P1, code)

ConciseEol(P) == [P EXCEPT !.indent = <<>>]

ConciseEof(P) == htmlEOF(P)

\* The return hook with the rest of the line tested before the comment is
\* reported.
ConciseReturnErrorFirst(P, child) ==
  LET P1 == [P EXCEPT !.indent = <<>>, !.isConcise = TRUE] IN
  CASE child.state = "JS_COMMENT_LINE" ->
         Invoke(P1, [Event("comment", child.start, child.end, child.start)
                       EXCEPT !.value = Range(child.start + 2, child.end)])
    [] child.state = "JS_COMMENT_BLOCK" ->
         IF ~OnlyWhitespaceOnLine(P1)
         THEN emitError(P1, P1.pos, "INVALID_CHARACTER")
         ELSE consumeWhitespaceOnLine(
                Invoke(P1, [Event("comment", child.start, child.end, child.start)
                              EXCEPT !.value = Range(child.start + 2, child.end - 2)]))
    [] OTHER -> P1

ConciseReturn(P, child) ==
  LET P1 == [P EXCEPT !.indent = <<>>, !.isConcise = TRUE] IN
  CASE child.state = "JS_COMMENT_LINE" ->
         Invoke(P1, [Event("comment", child.start, child.end, child.start)
                       EXCEPT !.value = Range(child.start + 2, child.end)])
    [] child.state = "JS_COMMENT_BLOCK" ->
         LET P2 == Invoke(P1, [Event("comment", child.start, child.end, child.start)
                                 EXCEPT !.value = Range(child.start + 2, child.end - 2)])
         IN IF ~OnlyWhitespaceOnLine(P2)
            THEN emitError(P2, P2.pos, "INVALID_CHARACTER")
            ELSE consumeWhitespaceOnLine(P2)
    [] OTHER -> P1

\* ------------------------------------------------------------------------
\* Parser core: exitState
\* ------------------------------------------------------------------------

\* The exit hook of the popped frame.
ExitHook(P, child) == IF child.state = "OPEN_TAG" THEN OpenTagExit(P) ELSE P

\* The return hook of the frame that becomes active.
ReturnHook(P, child) ==
  CASE Top(P).state = "ATTRIBUTE" -> AttributeReturn(P, child)
    [] Top(P).state = "CONCISE_HTML_CONTENT" -> ConciseReturn(P, child)
    [] Top(P).state = "OPEN_TAG" -> OpenTagReturn(P, child)
    [] Top(P).state = "HTML_CONTENT" /\ child.state = "OPEN_TAG"
         /\ P.tags # <<>> /\ ActiveTag(P).start = child.start
         /\ ActiveTag(P).bodyMode = "PARSED_TEXT" ->
         [enterState(P, "PARSED_TEXT_CONTENT") EXCEPT !.textParseMode = "parsed-text"]
    [] OTHER -> P

\* exitState: the frame ends at pos; the byte at pos is dispatched again, to
\* the parent.
exitState(P) ==
  LET child == [Top(P) EXCEPT !.end = P.pos]
      P1 == [P EXCEPT !.stack = SubSeq(@, 1, Len(@) - 1),
                      !.forward = FALSE,
                      !.popped = Append(@, child)]
  IN ReturnHook(ExitHook(P1, child), child)

\* ------------------------------------------------------------------------
\* Inputs
\* ------------------------------------------------------------------------

\* The bytes of the attribute texts that are enumerated exhaustively.
BodyAlphabet ==
  {"b", " ", "\n", "=", "(", ")", "{", "}", ">", "/", "+", "-", "["}

Bodies == UNION {[1..n -> BodyAlphabet] : n \in 0..MaxBody}

\* An open tag in html mode and one in concise mode, each followed by every
\* attribute text of at most MaxBody bytes.
HtmlPrefix == <<"<", "a", " ">>

ConcisePrefix == <<"a", " ">>

\* S1
HtmlAttributes ==
  <<"<", "a", " ", "b", "=", "c", " ", "d", "=", "\"", "e", "\"", ">">>

\* S2
HtmlOperator ==
  <<"<", "a", " ", "b", "=", "1", " ", "+", " ", "2", " ", "c", "=", "3", ">">>

\* S3: a method attribute
HtmlMethod ==
  <<"<", "a", " ", "b", "(", ")", " ", "{", " ", "c", "(", ")", " ", "}", ">">>

\* S4
HtmlSpread ==
  <<"<", "a", " ", ".", ".", ".", "r", ">">>

\* S6
HtmlTemplate ==
  <<"<", "a", " ", "b", "=", BACKTICK, "x", "$", "{", "1", "}", "y", BACKTICK, ">">>

\* S7
HtmlDivision ==
  <<"<", "a", " ", "b", "=", "1", "/", "2", ">">>

\* S7
HtmlRegex ==
  <<"<", "a", " ", "b", "=", "/", "r", "e", "/", "g", "i", ">">>

\* S8
HtmlUnterminated ==
  <<"<", "a", " ", "b", "=", "\"", "h", "i">>

\* a bound value, a single-quoted string, a close tag
HtmlBound ==
  <<"<", "a", " ", "b", ":", "=", "'", "c", "'", ">", "<", "/", "a", ">">>

\* two arguments in one attribute
HtmlSecondArgument ==
  <<"<", "a", " ", "b", "(", "c", ")", "(", "d", ")", ">">>

\* a default attribute with an argument and a value
HtmlDefaultArgumentValue ==
  <<"<", "a", " ", "(", "b", ")", "=", "c", ">">>

\* a default attribute with a method block
HtmlDefaultMethod ==
  <<"<", "a", " ", "(", "b", ")", " ", "{", "c", "}", "/", ">">>

\* end of input after an argument
HtmlArgumentEof ==
  <<"<", "a", " ", "b", "(", "c", ")", " ">>

\* comments inside a group
HtmlExpressionComments ==
  <<"<", "a", " ", "b", "=", "(", "1", " ", "/", "/", "c", "\n", "+", " ", "/", "*", "d", "*", "/", " ", "2", ")", ">">>

\* an operator before the whitespace
HtmlLookBehind ==
  <<"<", "a", " ", "b", "=", "c", "+", " ", "d", " ", "e", "=", "f", "\n", ">">>

\* nested concise tags and a dedent
ConciseNesting ==
  <<"a", "\n", " ", " ", "b", " ", "c", "=", "d", "\n", " ", " ", "e", "\n", "f">>

\* end of input inside an argument
ConciseArgumentEof ==
  <<"a", " ", "b", "(", "c">>

\* end of input inside a method block
ConciseMethodEof ==
  <<"a", " ", "b", "(", "c", ")", "{", "d">>

\* comments at line start
ConciseComments ==
  <<"/", "/", "c", "\n", "/", "*", "d", "*", "/", " ", "\n", "a", ";", "\n", "/", "*", "e", "*", "/", " ", "f">>

\* a line comment ended by the end of input
ConciseCommentEof ==
  <<"a", "\n", " ", "/", "/", "c">>

\* inline script, delimited block, single hyphen
ConciseBlocks ==
  <<"$", " ", "x", "\n", "-", "-", "\n", "$", "y", "\n", "-", "z">>

\* a child line with another indentation
ConciseIndentation ==
  <<"a", "\n", " ", " ", "b", "\n", " ", " ", " ", "c", "\n", " ", "d">>

\* html inside concise content
ConciseMixed ==
  <<"a", "\n", " ", " ", "<", "b", " ", "c", "=", "d", ">", "x", "<", "/", "b", ">", "\n", " ", " ", "e">>

\* a closing bracket right after a minus sign, concise mode
ConciseMinus ==
  <<"a", " ", "b", "=", "c", " ", "-", ")", " ", "d">>

\* the three kinds of brackets, nested and closed in order
HtmlGroups ==
  <<"<", "a", " ", "b", "=", "[", "1", "]", "(", "{", "2", "}", ")", ">">>

\* a closing bracket of another kind than the one that is open
HtmlMismatch ==
  <<"<", "a", " ", "b", "=", "[", "(", "1", "]", ">">>

\* a line break between a value and the operator that continues it
HtmlOperatorAfterLineBreak ==
  <<"<", "a", " ", "b", "=", "1", "\n", "+", " ", "2", ">">>

\* a spread and a bound value with nothing after the trigger
HtmlEmptySpread ==
  <<"<", "a", " ", ".", ".", ".", ">">>

HtmlEmptyBound ==
  <<"<", "a", " ", "b", ":", "=", " ", ">">>

\* a dedent that closes two tags and stays inside the outermost one
ConciseDedent ==
  <<"a", "\n", " ", "b", "\n", " ", " ", "c", "\n", " ", "d">>

\* a second child line indented with tabs instead of spaces
ConciseTabs ==
  <<"a", "\n", " ", " ", "b", "\n", "\t", "\t", "c">>

\* S5 with one extra space before `span`
ConciseExtraSpace ==
  <<"d", "i", "v", "\n", " ", " ", " ", "s", "p", "a", "n", " ", "h", "e", "l", "l", "o">>

\* the word operators
HtmlIn ==
  <<"<", "a", " ", "b", "=", "x", " ", "i", "n", " ", "y", ">">>

HtmlInstanceof ==
  <<"<", "a", " ", "b", "=", "x", " ", "i", "n", "s", "t", "a", "n", "c", "e", "o", "f", " ", "Y", ">">>

\* the three opening brackets after whitespace, in both modes
HtmlBrackets ==
  <<"<", "a", " ", "b", "=", "c", " ", "(", "d", ")", " ", "{", "e", "}", " ", "[", "f", "]", ">">>

ConciseBrackets ==
  <<"a", " ", "b", "=", "c", " ", "(", "d", ")", " ", "{", "e", "}", " ", "[", "f", "]">>

\* inputs whose tags the handler declares open-only or parsed text, and a
\* first line that is indented
BodyModeInputs ==
  {<<"i", "m", "g", "\n", " ", "b">>,
   <<"h", "r", "\n", " ", "b">>,
   <<"s", "c", "r", "i", "p", "t", "\n", " ", "-", "-", "a", "\n", "\t", "b">>,
   <<"<", "s", "c", "r", "i", "p", "t", ">", "/", "/", "f", "o", "o",
     "<", "/", "s", "c", "r", "i", "p", "t", ">">>,
   <<" ", "a">>}

Scenarios ==
  {HtmlBrackets, ConciseBrackets, HtmlIn, HtmlInstanceof, ConciseExtraSpace, ConciseTabs, ConciseDedent, ConciseMinus, HtmlEmptySpread, HtmlEmptyBound, HtmlOperatorAfterLineBreak, HtmlGroups, HtmlMismatch,
   HtmlAttributes,
   HtmlOperator,
   HtmlMethod,
   HtmlSpread,
   HtmlTemplate,
   HtmlDivision,
   HtmlRegex,
   HtmlUnterminated,
   HtmlBound,
   HtmlSecondArgument,
   HtmlDefaultArgumentValue,
   HtmlDefaultMethod,
   HtmlArgumentEof,
   HtmlExpressionComments,
   HtmlLookBehind,
   ConciseNesting,
   ConciseArgumentEof,
   ConciseMethodEof,
   ConciseComments,
   ConciseCommentEof,
   ConciseBlocks,
   ConciseIndentation,
   ConciseMixed}

Inputs ==
  Scenarios
    \cup BodyModeInputs
    \cup {HtmlPrefix \o body : body \in Bodies}
    \cup {ConcisePrefix \o body : body \in Bodies}

\* ------------------------------------------------------------------------
\* The parser as a state machine
\* ------------------------------------------------------------------------

VARIABLES
  data,            \* Parser.data: the source buffer
  pos,             \* Parser.pos
  stack,           \* the state stack; its last frame is the active one
  tags,            \* the open tags; its last entry is Parser.activeTag
  indent,          \* Parser.indent
  isConcise,       \* Parser.isConcise
  beginMixedMode,  \* Parser.beginMixedMode
  textParseMode,   \* Parser.textParseMode
  hasError,        \* the latch of createNotifiers
  events,          \* history: the handler invocations so far
  popped,          \* history: the frames the last step exited, in order
  dispatched,      \* history: the bytes dispatched so far, with their frames
  phase            \* "parse", "done" (the loop has ended) or "finished"

vars ==
  <<data, pos, stack, tags, indent, isConcise, beginMixedMode, textParseMode,
    hasError, events, popped, dispatched, phase>>

\* The parser at the start of a dispatch.
Cur ==
  [data |-> data, pos |-> pos, stack |-> stack, tags |-> tags, indent |-> indent,
   isConcise |-> isConcise, beginMixedMode |-> beginMixedMode,
   textParseMode |-> textParseMode, hasError |-> hasError, events |-> events,
   popped |-> <<>>, forward |-> TRUE]

\* Parser.parse up to its loop: CONCISE_HTML_CONTENT is entered at offset 0.
Init ==
  /\ data \in Inputs
  /\ pos = 0
  /\ stack = <<Frame("CONCISE_HTML_CONTENT", 0)>>
  /\ tags = <<>>
  /\ indent = <<>>
  /\ isConcise = TRUE
  /\ beginMixedMode = FALSE
  /\ textParseMode = "html"
  /\ hasError = FALSE
  /\ events = <<>>
  /\ popped = <<>>
  /\ dispatched = {}
  /\ phase = "parse"

Fields(Q) ==
  /\ data' = Q.data
  /\ stack' = Q.stack
  /\ tags' = Q.tags
  /\ indent' = Q.indent
  /\ isConcise' = Q.isConcise
  /\ beginMixedMode' = Q.beginMixedMode
  /\ textParseMode' = Q.textParseMode
  /\ hasError' = Q.hasError
  /\ events' = Q.events
  /\ popped' = Q.popped
  /\ dispatched' =
       IF phase = "parse" /\ pos < Len(data)
       THEN dispatched \cup {[depth |-> Len(stack), state |-> Top(Cur).state,
                               start |-> Top(Cur).start, stage |-> Top(Cur).stage,
                               pos |-> pos]}
       ELSE dispatched

\* The end of one turn of the loop: pos advances over the byte (or the line
\* break) unless a frame exited; an error ends the loop.
Advance(Q, width) ==
  /\ Fields(Q)
  /\ pos' = IF Q.forward THEN Q.pos + width ELSE Q.pos
  /\ phase' = IF Q.hasError THEN "done" ELSE "parse"

\* The end of one eof call: the unwinding goes on while frames exit.
Unwind(Q) ==
  /\ Fields(Q)
  /\ pos' = Q.pos
  /\ phase' = IF Q.hasError \/ Q.forward THEN "done" ELSE "parse"

code == CodeAt(data, pos)

\* A line break at pos: its length (\r\n is one line break), or 0.
LineBreak ==
  IF code = "\n" THEN 1
  ELSE IF code = "\r" /\ CodeAt(data, pos + 1) = "\n" THEN 2
  ELSE 0

AtChar(state) ==
  phase = "parse" /\ pos < Len(data) /\ Top(Cur).state = state /\ LineBreak = 0

AtEol(state) ==
  phase = "parse" /\ pos < Len(data) /\ Top(Cur).state = state /\ LineBreak > 0

AtEof(state) ==
  phase = "parse" /\ pos >= Len(data) /\ Top(Cur).state = state

\* The kind of hook the loop calls on the active frame.
Kind == IF pos >= Len(data) THEN "eof" ELSE IF LineBreak > 0 THEN "eol" ELSE "char"

\* The end of a call of a hook of kind Kind.
Turn(Q) ==
  /\ Fields(Q)
  /\ pos' = IF Kind = "eof" \/ ~Q.forward THEN Q.pos
            ELSE IF Kind = "eol" THEN Q.pos + LineBreak
            ELSE Q.pos + 1
  /\ phase' = IF Q.hasError \/ (Kind = "eof" /\ Q.forward) THEN "done" ELSE "parse"

In(state) == phase = "parse" /\ Top(Cur).state = state

CONCISE_HTML_CONTENT_char ==
  AtChar("CONCISE_HTML_CONTENT") /\ Advance(ConciseChar(Cur, code), 1)

CONCISE_HTML_CONTENT_eol ==
  AtEol("CONCISE_HTML_CONTENT") /\ Advance(ConciseEol(Cur), LineBreak)

CONCISE_HTML_CONTENT_eof ==
  AtEof("CONCISE_HTML_CONTENT") /\ Unwind(ConciseEof(Cur))

ATTRIBUTE_char == AtChar("ATTRIBUTE") /\ Advance(AttributeChar(Cur, code), 1)

ATTRIBUTE_eol == AtEol("ATTRIBUTE") /\ Advance(AttributeEol(Cur), LineBreak)

ATTRIBUTE_eof == AtEof("ATTRIBUTE") /\ Unwind(AttributeEof(Cur))

EXPRESSION_char == AtChar("EXPRESSION") /\ Advance(ExpressionChar(Cur, code), 1)

EXPRESSION_eol == AtEol("EXPRESSION") /\ Advance(ExpressionEol(Cur), LineBreak)

EXPRESSION_eof == AtEof("EXPRESSION") /\ Unwind(ExpressionEof(Cur))

JS_COMMENT_LINE_char ==
  AtChar("JS_COMMENT_LINE")
    /\ Advance(CommentLineChar(Cur, [type |-> "code", value |-> code],
                                [type |-> "frame", value |-> Top(Cur)]), 1)

JS_COMMENT_LINE_eol ==
  AtEol("JS_COMMENT_LINE") /\ Advance(CommentLineEol(Cur), LineBreak)

JS_COMMENT_LINE_eof == AtEof("JS_COMMENT_LINE") /\ Unwind(CommentLineEof(Cur))

OPEN_TAG == In("OPEN_TAG") /\ Turn(OpenTagHook(Cur, Kind, code))

TAG_NAME == In("TAG_NAME") /\ Turn(TagNameHook(Cur, Kind, code))

HTML_CONTENT == In("HTML_CONTENT") /\ Turn(HtmlContentHook(Cur, Kind, code))

STRING_any == In("STRING") /\ Turn(StringHook(Cur, Kind, code))

TEMPLATE_STRING == In("TEMPLATE_STRING") /\ Turn(TemplateStringHook(Cur, Kind, code))

REGULAR_EXPRESSION ==
  In("REGULAR_EXPRESSION") /\ Turn(RegularExpressionHook(Cur, Kind, code))

JS_COMMENT_BLOCK == In("JS_COMMENT_BLOCK") /\ Turn(CommentBlockHook(Cur, Kind, code))

PARSED_TEXT_CONTENT ==
  In("PARSED_TEXT_CONTENT") /\ Turn(ParsedTextHook(Cur, Kind, code))

INLINE_SCRIPT == In("INLINE_SCRIPT") /\ Turn(LineChildHook(Cur, Kind))

BEGIN_DELIMITED_HTML_BLOCK ==
  In("BEGIN_DELIMITED_HTML_BLOCK") /\ Turn(LineChildHook(Cur, Kind))

\* The end of Parser.parse: onFinish.
Finish ==
  /\ phase = "done"
  /\ Fields([notifyFinish(Cur) EXCEPT !.popped = <<>>])
  /\ pos' = pos
  /\ phase' = "finished"

Next ==
  \/ CONCISE_HTML_CONTENT_char
  \/ CONCISE_HTML_CONTENT_eol
  \/ CONCISE_HTML_CONTENT_eof
  \/ ATTRIBUTE_char
  \/ ATTRIBUTE_eol
  \/ ATTRIBUTE_eof
  \/ EXPRESSION_char
  \/ EXPRESSION_eol
  \/ EXPRESSION_eof
  \/ JS_COMMENT_LINE_char
  \/ JS_COMMENT_LINE_eol
  \/ JS_COMMENT_LINE_eof
  \/ OPEN_TAG
  \/ TAG_NAME
  \/ HTML_CONTENT
  \/ STRING_any
  \/ TEMPLATE_STRING
  \/ REGULAR_EXPRESSION
  \/ JS_COMMENT_BLOCK
  \/ PARSED_TEXT_CONTENT
  \/ INLINE_SCRIPT
  \/ BEGIN_DELIMITED_HTML_BLOCK
  \/ Finish

Spec == Init /\ [][Next]_vars

\* Parser.parse runs its loop to the end: a step that is possible is taken.
LiveSpec == Spec /\ WF_vars(Next)


\* ------------------------------------------------------------------------
\* Properties
\* ------------------------------------------------------------------------

\* The handler invocations that carry a range (onFinish carries none).
Ranged == {i \in 1..Len(events) : events[i].type # "finish"}

ErrorIndexes == {i \in 1..Len(events) : events[i].type = "error"}

InBounds(range) ==
  0 <= range.start /\ range.start <= range.end /\ range.end <= Len(data)

\* C2: every range handed to a handler satisfies
\* 0 <= start <= end <= source.length, for every input: the attribute
\* argument and attribute method ranges whose end is one byte past the child
\* expression (also when that expression exited at the end of the input),
\* the zero-width close-tag positions of a concise dedent, and the error
\* event whose end is min(pos + 1, maxPos).
C2_RangesInBounds ==
  \A i \in Ranged :
    /\ InBounds(events[i])
    /\ events[i].value # NoRange => InBounds(events[i].value)
    /\ events[i].type = "attrMethod" => InBounds(events[i].body)

AttributePayload == {"attrArgs", "attrValue", "attrMethod"}

AttributeEvents == AttributePayload \cup {"attrName", "attrSpread"}

NonDecreasingStarts(indexes) ==
  \A i, j \in indexes : i < j => events[i].start <= events[j].start

\* The events of one attribute: its name comes before its arguments, value
\* or method, and all of them before the events of the next attribute.
AttributeOrder ==
  /\ \A j \in Ranged :
       events[j].type \in AttributePayload =>
         \E i \in 1..(j - 1) :
           events[i].type = "attrName" /\ events[i].owner = events[j].owner
  /\ \A i, j \in Ranged :
       (/\ i < j
        /\ events[i].type \in AttributeEvents
        /\ events[j].type \in AttributeEvents) => events[i].owner <= events[j].owner

ExitedExpressions == {i \in 1..Len(popped) : popped[i].state = "EXPRESSION"}

CloseOf(open) == IF open = "(" THEN ")" ELSE IF open = "[" THEN "]" ELSE "}"

\* The brackets of s between offsets i and end are balanced, given the close
\* bytes expected so far.
RECURSIVE Balanced(_, _, _, _)
Balanced(s, i, end, expected) ==
  IF i >= end THEN expected = <<>>
  ELSE IF CodeAt(s, i) \in {"(", "[", "{"}
  THEN Balanced(s, i + 1, end, Append(expected, CloseOf(CodeAt(s, i))))
  ELSE IF CodeAt(s, i) \in {")", "]", "}"}
  THEN /\ expected # <<>>
       /\ expected[Len(expected)] = CodeAt(s, i)
       /\ Balanced(s, i + 1, end, SubSeq(expected, 1, Len(expected) - 1))
  ELSE Balanced(s, i + 1, end, expected)

\* No byte of the range can open a string, a comment or a regex literal.
Plain(s, start, end) ==
  \A k \in start..(end - 1) : CodeAt(s, k) \notin {"\"", "'", BACKTICK, "/"}

\* The first half of C4: an EXPRESSION frame exits without an error only when its
\* groupStack is empty, on every exit path (terminator byte, whitespace with
\* no operator continuation, end of line, end of input).
C4_ExitsWithEmptyGroupStack ==
  \A i \in ExitedExpressions : popped[i].groupStack = <<>>

\* C4: an EXPRESSION frame exits without an error only when its groupStack is
\* empty, so every expression range returned to a parent has balanced (), []
\* and {} outside strings, comments and regex literals.
C4_BalancedOnExit ==
  /\ C4_ExitsWithEmptyGroupStack
  /\ \A i \in ExitedExpressions :
       Plain(data, popped[i].start, popped[i].end) =>
         Balanced(data, popped[i].start, popped[i].end, <<>>)

OpeningBytes == {"(", "[", "{"}

ClosingBytes == {")", "]", "}"}

\* EXPRESSION.char is about to run on a byte that it does not take as its
\* terminator at depth 0.
GroupByteAt(bytes) ==
  /\ AtChar("EXPRESSION")
  /\ code \in bytes
  /\ ~(Top(Cur).groupStack = <<>> /\ IsTerminator(Cur, code, Top(Cur).terminator))

LastEvent(evs) == evs[Len(evs)]

WhitespaceAtDepth0 ==
  /\ phase = "parse"
  /\ pos < Len(data)
  /\ Top(Cur).state = "EXPRESSION"
  /\ isWhitespaceCode(code)
  /\ Top(Cur).groupStack = <<>>
  /\ Top(Cur).terminatedByWhitespace
  /\ ~Top(Cur).skipOperators

\* The value ranges of the onAttrValue events, in order of emission.
ValueRanges(evs) ==
  LET values == SelectSeq(evs, LAMBDA e : e.type = "attrValue")
  IN [i \in 1..Len(values) |-> values[i].value]

\* C6: in an EXPRESSION with terminatedByWhitespace true and skipOperators
\* false, a whitespace byte at depth 0 ends the expression exactly when no
\* continuation operator follows the whitespace and no operator immediately
\* precedes it; otherwise scanning continues with the first byte after the
\* matched operator text (lookahead) or with the first non-whitespace byte
\* (lookbehind).  Hence <a b=1 + 2 c=3> gives b the value `1 + 2` and c the
\* value `3`.
C6_OperatorContinuation ==
  /\ [][WhitespaceAtDepth0 =>
          LET ahead == lookAheadPattern(data, pos, isConcise)
              behind == lookBehindPattern(data, pos)
          IN /\ (popped' # <<>>) <=> (ahead < 0 /\ ~behind)
             /\ ahead >= 0 => (pos' = pos + ahead /\ stack' = stack)
             /\ (ahead < 0 /\ behind) =>
                  (pos' = SkipSpaces(data, pos) /\ stack' = stack)
       ]_vars
  /\ []((data = HtmlOperator /\ phase = "finished") =>
          ValueRanges(events) = <<Range(5, 10), Range(13, 14)>>)

\* The bytes after which `/` divides, as spec.md 4.2 lists them.
DivisionBefore ==
  Digits \cup LowerLetters \cup UpperLetters \cup {"%", ")", ".", "<", "]", "}"}

\* EXPRESSION.char is about to run on a `/` that it does not take as (the
\* start of) its terminator at depth 0.
SlashAt ==
  /\ AtChar("EXPRESSION")
  /\ code = "/"
  /\ ~(Top(Cur).groupStack = <<>> /\ IsTerminator(Cur, code, Top(Cur).terminator))

Entered(state) ==
  /\ Len(stack') = Len(stack) + 1
  /\ stack'[Len(stack')].state = state
  /\ stack'[Len(stack')].start = pos

ChildOfStage(stage) ==
  /\ phase = "parse"
  /\ Top(Cur).state = "EXPRESSION"
  /\ Parent(Cur).state = "ATTRIBUTE"
  /\ Parent(Cur).stage = stage
  /\ popped' # <<>>

OnlyError(errorCode) ==
  /\ hasError'
  /\ Len(events') = Len(events) + 1
  /\ SubSeq(events', 1, Len(events)) = events
  /\ LastEvent(events').type = "error"
  /\ LastEvent(events').code = errorCode

\* C8: when the expression child of an attribute's VALUE stage (entered by
\* `=`, `:=` or `...`) returns an empty range, ILLEGAL_ATTRIBUTE_VALUE is
\* emitted and neither onAttrValue nor onAttrSpread is emitted for that
\* attribute.
C8_EmptyValue ==
  [][(ChildOfStage("VALUE") /\ popped'[1].start = popped'[1].end) =>
       /\ OnlyError("ILLEGAL_ATTRIBUTE_VALUE")
       /\ \A i \in 1..Len(events') :
            events'[i].type \in {"attrValue", "attrSpread"} =>
              events'[i].owner # Parent(Cur).start
    ]_vars

\* A spread with nothing after the three dots has been refused.
C8_Witness ==
  /\ hasError
  /\ LastEvent(events).code = "ILLEGAL_ATTRIBUTE_VALUE"
  /\ Top(Cur).state = "ATTRIBUTE"
  /\ Top(Cur).spread
  /\ popped[1].state = "EXPRESSION"
  /\ popped[1].start = popped[1].end

\* C9: a second parenthesized argument within one attribute emits
\* ILLEGAL_ATTRIBUTE_ARGUMENT, emits no second onAttrArgs event and leaves
\* the first argument as it was.
C9_SecondArgument ==
  [][(ChildOfStage("ARGUMENT") /\ Parent(Cur).args.kind # "false") =>
       /\ OnlyError("ILLEGAL_ATTRIBUTE_ARGUMENT")
       /\ Len(stack') = Len(stack) - 1
       /\ stack'[Len(stack')].args = Parent(Cur).args
    ]_vars

\* The second argument of one attribute has been refused after the first
\* one was emitted.
C9_Witness ==
  /\ hasError
  /\ LastEvent(events).code = "ILLEGAL_ATTRIBUTE_ARGUMENT"
  /\ Top(Cur).state = "ATTRIBUTE"
  /\ Cardinality({i \in 1..Len(events) :
                    events[i].type = "attrArgs" /\ events[i].owner = Top(Cur).start}) = 1

\* C10: whenever an attribute frame is in the VALUE stage, attr.name is set:
\* if no name was parsed before the value-like trigger, a zero-width name
\* range at the attribute's start is recorded as the attribute's name.
C10_NameSetInValueStage ==
  \A i \in 1..Len(stack) :
    (stack[i].state = "ATTRIBUTE" /\ stack[i].stage = "VALUE") =>
      stack[i].name # NoRange

\* The events of the given types that the attribute starting at owner emitted.
EventsOf(evs, owner, types) ==
  {i \in 1..Len(evs) : evs[i].type \in types /\ evs[i].owner = owner}

\* The ATTRIBUTE frames that the last dispatch exited.
ExitedAttributes == {i \in 1..Len(popped) : popped[i].state = "ATTRIBUTE"}

\* The event that the step appended last.
Emitted(type) ==
  /\ Len(events') = Len(events) + 1
  /\ SubSeq(events', 1, Len(events)) = events
  /\ LastEvent(events').type = type

\* C11 without the shape of the method body: an attribute never emits both
\* onAttrArgs and onAttrMethod and an attribute with an argument that exits
\* has emitted exactly one of them; when `{` is the next non-whitespace byte
\* after `)` the argument is retained (no event) and is later the params of
\* onAttrMethod, whose start is the offset of `(`; otherwise onAttrArgs is
\* emitted at once; BLOCK is only entered with retained args.
C11_ArgsOrMethod ==
  /\ [](\A i \in 1..Len(stack) :
          (stack[i].state = "ATTRIBUTE" /\ stack[i].stage = "BLOCK") =>
            stack[i].args.kind = "range")
  /\ [](\A i, j \in Ranged :
          (events[i].type = "attrArgs" /\ events[j].type = "attrMethod") =>
            events[i].owner # events[j].owner)
  /\ [](\A i \in ExitedAttributes :
          popped[i].args.kind # "false" =>
            Cardinality(EventsOf(events, popped[i].start,
                                 {"attrArgs", "attrMethod"})) = 1)
  /\ [][(ChildOfStage("ARGUMENT") /\ Parent(Cur).args.kind = "false") =>
          LET child == popped'[1]
              open == child.start - 1
              close == child.end + 1
          IN /\ CodeAt(data, open) = "("
             /\ IF CodeAt(data, SkipSpaces(data, close)) = "{"
                THEN /\ events' = events
                     /\ stack'[Len(stack')].args =
                          [kind |-> "range", start |-> open, end |-> close,
                           value |-> Range(child.start, child.end)]
                     /\ pos' = SkipSpaces(data, close)
                ELSE /\ Emitted("attrArgs")
                     /\ LastEvent(events').start = open
                     /\ LastEvent(events').end = close
                     /\ LastEvent(events').value = Range(child.start, child.end)
                     /\ stack'[Len(stack')].args.kind = "true"
       ]_vars
  /\ [][ChildOfStage("BLOCK") =>
          LET args == Parent(Cur).args
              e == LastEvent(events')
          IN /\ Emitted("attrMethod")
             /\ e.start = args.start
             /\ CodeAt(data, e.start) = "("
             /\ e.params = Range(args.start, args.end)
             /\ e.paramsValue = args.value
             /\ e.bodyValue = Range(popped'[1].start, popped'[1].end)
       ]_vars

\* C11: for an attribute with a parenthesized argument exactly one of
\* onAttrArgs and onAttrMethod is emitted, never both: when the next
\* non-whitespace byte after `)` is `{`, the argument is retained and
\* reported only as the params range of onAttrMethod (event start = offset
\* of `(`, body spanning `{` to `}` with the interior as value); otherwise
\* onAttrArgs is emitted immediately.  BLOCK is never entered with args that
\* were already emitted, so params is always a range.
C11_ArgsXorMethod ==
  /\ C11_ArgsOrMethod
  /\ [](\A i \in Ranged :
          events[i].type = "attrMethod" =>
            /\ CodeAt(data, events[i].body.start) = "{"
            /\ CodeAt(data, events[i].body.end - 1) = "}"
            /\ events[i].end = events[i].body.end
            /\ events[i].bodyValue =
                 Range(events[i].body.start + 1, events[i].body.end - 1))

\* C12: the VALUE stage of an attribute, when its child expression returns a
\* non-empty range, emits exactly one event and then exits the attribute:
\* onAttrSpread when the value was introduced by `...`, otherwise onAttrValue
\* with bound = true if and only if it was introduced by `:=`.  The event
\* starts at the offset of the introducer and its value range is the range
\* of the child expression; no attribute is ever both spread and bound.
C12_ValueStage ==
  /\ [](\A i \in 1..Len(stack) :
          stack[i].state = "ATTRIBUTE" => ~(stack[i].spread /\ stack[i].bound))
  /\ [][(ChildOfStage("VALUE") /\ popped'[1].start # popped'[1].end) =>
          LET child == popped'[1]
              attr == Parent(Cur)
              e == LastEvent(events')
          IN /\ Len(events') = Len(events) + 1
             /\ SubSeq(events', 1, Len(events)) = events
             /\ Len(popped') = 2
             /\ popped'[2].state = "ATTRIBUTE"
             /\ popped'[2].start = attr.start
             /\ Len(stack') = Len(stack) - 2
             /\ e.owner = attr.start
             /\ e.start >= attr.start
             /\ e.end = child.end
             /\ e.value = Range(child.start, child.end)
             /\ CASE LitAt(data, e.start, <<".", ".", ".">>) ->
                       /\ e.type = "attrSpread"
                       /\ child.start = e.start + 3
                  [] LitAt(data, e.start, <<":", "=">>) ->
                       /\ e.type = "attrValue"
                       /\ e.bound
                       /\ child.start = SkipSpaces(data, e.start + 2)
                  [] CodeAt(data, e.start) = "=" ->
                       /\ e.type = "attrValue"
                       /\ ~e.bound
                       /\ child.start = SkipSpaces(data, e.start + 1)
                  [] OTHER -> FALSE
       ]_vars

\* The bound value of <a b:='c'> has been emitted and its attribute left.
C12_Witness ==
  /\ data = HtmlBound
  /\ ExitedAttributes # {}
  /\ LastEvent(events).type = "attrValue"
  /\ LastEvent(events).bound
  /\ LastEvent(events).start = 4
  /\ LastEvent(events).value = Range(6, 9)

\* CONCISE_HTML_CONTENT.char is about to run on a non-whitespace byte.
LineStart ==
  /\ AtChar("CONCISE_HTML_CONTENT")
  /\ ~isWhitespaceCode(code)

\* The open tags (by index) whose recorded indent is not shorter than the
\* indent of the current line.
Dedented == {i \in 1..Len(tags) : Len(tags[i].indent) >= Len(indent)}

TagStarts(ts) == [i \in 1..Len(ts) |-> ts[i].start]

\* C13: on the first non-whitespace byte of a concise-mode line the parser
\* closes, innermost first, exactly the open tags whose recorded indent
\* length is greater than or equal to the line's indent length, emitting one
\* close event per tag before anything else for that line; the innermost open
\* tag with a shorter indent stays open and becomes the parent of the line.
C13_DedentCloses ==
  [][LineStart =>
       LET closed == Cardinality(Dedented)
           kept == Len(tags) - closed
           added == Len(events') - Len(events)
       IN \* the tags to close are the innermost ones
          /\ Dedented = (kept + 1)..Len(tags)
          \* one close event per tag, before any other event of the line
          /\ added >= closed
          /\ SubSeq(events', 1, Len(events)) = events
          /\ \A k \in 1..added :
               (events'[Len(events) + k].type = "closeTag") <=> (k <= closed)
          \* the tags with a shorter indent stay open
          /\ Len(tags') >= kept
          /\ TagStarts(SubSeq(tags', 1, kept)) = TagStarts(SubSeq(tags, 1, kept))
          \* a tag opened by the line is the child of the innermost kept tag
          /\ Len(tags') <= kept + 1
          /\ Len(tags') = kept + 1 =>
               /\ tags'[kept + 1].start = pos
               /\ kept > 0 => Len(tags'[kept].indent) < Len(tags'[kept + 1].indent)
    ]_vars

\* A line has just closed two tags at once and opened its own tag under the
\* tag that stayed open.
C13_Witness ==
  /\ Len(events) >= 2
  /\ LastEvent(events).type = "closeTag"
  /\ events[Len(events) - 1].type = "closeTag"
  /\ events[Len(events) - 1].start = LastEvent(events).start
  /\ Len(tags) = 2
  /\ tags[2].start = pos
  /\ Top(Cur).state = "OPEN_TAG"

\* The step reports the error errorCode.
Raises(errorCode) ==
  /\ hasError'
  /\ LastEvent(events').type = "error"
  /\ LastEvent(events').code = errorCode

\* A line start whose parent tag (the innermost tag that stays open) accepts
\* the line as nested content.
ChildLineStart ==
  /\ LineStart
  /\ Cardinality(Dedented) < Len(tags)
  /\ tags[Len(tags) - Cardinality(Dedented)].ending = "tag"
  /\ tags[Len(tags) - Cardinality(Dedented)].bodyMode = "HTML"

RequiresTerminator(expression) ==
  expression.terminator.isNumber /\ expression.terminator.code # "-1"

\* The error code that the end of input inside an expression gives, by the
\* state of the parent frame.
EofCodeOf(state) ==
  IF state \in {"ATTRIBUTE", "TAG_NAME"} THEN "MALFORMED_OPEN_TAG"
  ELSE IF state = "PLACEHOLDER" THEN "MALFORMED_PLACEHOLDER"
  ELSE "INVALID_EXPRESSION"

\* C15: at the end of the input inside an EXPRESSION, if groupStack is
\* non-empty or the expression still required a terminator, an error is
\* emitted instead of a clean exit, in concise mode as well as in verbose
\* mode; its code is chosen by the parent state: ATTRIBUTE or TAG_NAME gives
\* MALFORMED_OPEN_TAG, PLACEHOLDER gives MALFORMED_PLACEHOLDER, any other
\* parent gives INVALID_EXPRESSION.
C15_EofInsideExpression ==
  [][(/\ AtEof("EXPRESSION")
      /\ Top(Cur).groupStack # <<>> \/ RequiresTerminator(Top(Cur))) =>
       /\ OnlyError(EofCodeOf(Parent(Cur).state))
       /\ popped' = <<>>
       /\ stack' = stack
    ]_vars

BadIndentationRaised ==
  \E i \in ErrorIndexes : events[i].code = "BAD_INDENTATION"

\* C16 as stated: for the concise input made of the line `div` followed by
\* a single indented child line `span hello`, replacing the child line's
\* indentation with one extra space makes the parse raise BAD_INDENTATION.
C16_ExtraSpaceRaises ==
  (data = ConciseExtraSpace /\ phase = "finished") => BadIndentationRaised

\* C16, amended: for that input, replacing the child line's indentation with
\* one extra space raises no error: the longer indentation is recorded as
\* the nestedIndent of `div` and `span` is opened as its child.
\* BAD_INDENTATION is raised only by a line with a parent tag whose recorded
\* nestedIndent differs from the line's indentation, or by an indented line
\* that has no parent tag.
C16_ExtraSpaceAccepted ==
  /\ [](data = ConciseExtraSpace =>
          /\ ~hasError
          /\ Len(tags) = 2 =>
               /\ tags[1].nestedIndent = <<" ", " ", " ">>
               /\ tags[2].indent = <<" ", " ", " ">>
               /\ tags[2].start = 7
          /\ phase = "finished" =>
               Cardinality({i \in Ranged : events[i].type = "closeTag"}) = 2)
  /\ [][(LineStart /\ Raises("BAD_INDENTATION")) =>
          LET p == Len(tags) - Cardinality(Dedented) IN
            IF p = 0 THEN indent # <<>>
            ELSE tags[p].hasNestedIndent /\ tags[p].nestedIndent # indent
       ]_vars

\* The child line with three spaces has been taken: `span` is open under
\* `div`, whose nestedIndent is the three spaces.
C16_Witness ==
  /\ data = ConciseExtraSpace
  /\ Len(tags) = 2
  /\ tags[1].hasNestedIndent
  /\ tags[1].nestedIndent = <<" ", " ", " ">>
  /\ pos >= 11
  /\ ~hasError

\* C17: at a depth-0 whitespace boundary with skipOperators false, each of
\* the word operators `in` and `instanceof`, surrounded by whitespace and
\* followed by a byte that is not terminator-like, continues the expression:
\* both <a b=x in y> and <a b=x instanceof Y> give attribute b one value
\* covering the whole operator expression.
C17_WordOperators ==
  /\ (data = HtmlIn /\ phase = "finished") =>
       /\ ~hasError
       /\ ValueRanges(events) = <<Range(5, 11)>>
  /\ (data = HtmlInstanceof /\ phase = "finished") =>
       /\ ~hasError
       /\ ValueRanges(events) = <<Range(5, 19)>>

\* EXPRESSION.char is about to run on a whitespace byte at depth 0 (operator
\* rule in force); byte is the first non-whitespace byte after it.
BracketBoundary(byte) ==
  /\ WhitespaceAtDepth0
  /\ LineBreak = 0
  /\ CodeAt(data, SkipSpaces(data, pos)) = byte

\* The expression goes on with the byte after the whitespace.
Continues ==
  /\ popped' = <<>>
  /\ stack' = stack
  /\ events' = events
  /\ pos' = SkipSpaces(data, pos)

\* The expression ends at the whitespace.
Ends ==
  /\ popped' # <<>>
  /\ popped'[1].state = "EXPRESSION"
  /\ popped'[1].end = pos

\* C18 as stated: at a depth-0 whitespace boundary with skipOperators false,
\* whitespace followed by `{` or `(` continues the expression in both
\* surface modes, while whitespace followed by `[` continues the expression
\* in concise mode only and ends it in verbose mode.
C18_BracketAfterWhitespace ==
  [][/\ (BracketBoundary("{") \/ BracketBoundary("(")) => Continues
     /\ BracketBoundary("[") =>
          IF isConcise THEN Continues
          ELSE ~lookBehindPattern(data, pos) => Ends
    ]_vars

\* C18, amended: at a depth-0 whitespace boundary with skipOperators false
\* that EXPRESSION.char handles, whitespace followed by `{` or `(` continues
\* the expression in both surface modes, while whitespace followed by `[`
\* continues the expression in verbose mode only and ends it in concise mode
\* (unless an operator precedes the whitespace).
C18_BracketAfterWhitespaceAmended ==
  [][/\ (BracketBoundary("{") \/ BracketBoundary("(")) => Continues
     /\ BracketBoundary("[") =>
          IF ~isConcise THEN Continues
          ELSE IF lookBehindPattern(data, pos) THEN Continues ELSE Ends
    ]_vars

\* In concise mode the value `c (d) {e}` has ended at the whitespace before
\* `[`, after going on over the whitespace before `(` and `{`.
C18_Witness ==
  /\ data = ConciseBrackets
  /\ popped # <<>>
  /\ popped[1].state = "EXPRESSION"
  /\ popped[1].start = 4
  /\ popped[1].end = 13
  /\ CodeAt(data, 14) = "["
  /\ LastEvent(events).type = "attrValue"

\* ATTRIBUTE.char is about to run on a `{`.
CurlyInAttribute == AtChar("ATTRIBUTE") /\ code = "{"

\* The step enters the child expression of the given stage right after (or,
\* for NAME, at) the byte at pos.
EntersStage(stage, start) ==
  /\ Len(stack') = Len(stack) + 1
  /\ stack'[Len(stack)].state = "ATTRIBUTE"
  /\ stack'[Len(stack)].stage = stage
  /\ stack'[Len(stack')].state = "EXPRESSION"
  /\ stack'[Len(stack')].start = start
  /\ popped' = <<>>

EntersBlock ==
  /\ EntersStage("BLOCK", pos + 1)
  /\ stack'[Len(stack')].terminator = TerminatorCode("}")
  /\ ~stack'[Len(stack')].terminatedByWhitespace
  /\ pos' = pos + 1

ExitsAttribute ==
  /\ popped' # <<>>
  /\ popped'[1].state = "ATTRIBUTE"
  /\ popped'[1].start = Top(Cur).start
  /\ pos' = pos

CurlyInCurlyExpression ==
  /\ AtChar("EXPRESSION")
  /\ code = "}"
  /\ Top(Cur).terminator = TerminatorCode("}")

\* The active expression exits at pos: its range ends before the byte.
ExitsAtByte ==
  /\ popped' # <<>>
  /\ popped'[1].state = "EXPRESSION"
  /\ popped'[1].start = Top(Cur).start
  /\ popped'[1].end = pos
  /\ ~hasError'

AcceptedLineStart ==
  /\ LineStart
  /\ LET p == Len(tags) - Cardinality(Dedented) IN
       IF p = 0 THEN indent = <<>>
       ELSE /\ tags[p].ending = "tag"
            /\ tags[p].bodyMode = "PARSED_TEXT" => code = "-"
            /\ tags[p].hasNestedIndent => tags[p].nestedIndent = indent

\* The step pushes a frame of the given state that starts at start, and the
\* next byte dispatched is the one at next.
EntersChild(state, start, next) ==
  /\ Len(stack') = Len(stack) + 1
  /\ SubSeq(stack', 1, Len(stack)) = stack
  /\ stack'[Len(stack')].state = state
  /\ stack'[Len(stack')].start = start
  /\ pos' = next
  /\ ~hasError'

\* C21 as stated: after the indentation checks pass, the first
\* non-whitespace byte of a concise line selects the child state: `<` begins
\* mixed verbose mode, `$` followed by whitespace enters INLINE_SCRIPT, `--`
\* enters the delimited HTML block, `//` or `/*` enters a comment, a single
\* `-` raises ILLEGAL_LINE_START, and every other first byte enters OPEN_TAG
\* with that byte re-presented to it (no other first byte raises an error).
C21_LineStartDispatch ==
  [][AcceptedLineStart =>
       LET next == CodeAt(data, pos + 1) IN
       CASE code = "<" ->
              EntersChild("HTML_CONTENT", pos - 1, pos) /\ beginMixedMode' /\ ~isConcise'
         [] code = "$" /\ isWhitespaceCode(next) ->
              EntersChild("INLINE_SCRIPT", pos + 1, pos + 2)
         [] code = "-" /\ next = "-" ->
              EntersChild("BEGIN_DELIMITED_HTML_BLOCK", pos, pos)
         [] code = "-" /\ next # "-" ->
              Raises("ILLEGAL_LINE_START") /\ stack' = stack
         [] code = "/" /\ next = "/" -> EntersChild("JS_COMMENT_LINE", pos, pos + 2)
         [] code = "/" /\ next = "*" -> EntersChild("JS_COMMENT_BLOCK", pos, pos + 2)
         [] OTHER -> EntersChild("OPEN_TAG", pos, pos)
    ]_vars

\* C21, amended: as C21, and a `/` that is followed by neither `/` nor `*`
\* raises ILLEGAL_LINE_START too; every first byte other than these enters
\* OPEN_TAG with that byte re-presented to it and raises no error.
C21_LineStartDispatchAmended ==
  [][AcceptedLineStart =>
       LET next == CodeAt(data, pos + 1) IN
       CASE code = "<" ->
              EntersChild("HTML_CONTENT", pos - 1, pos) /\ beginMixedMode' /\ ~isConcise'
         [] code = "$" /\ isWhitespaceCode(next) ->
              EntersChild("INLINE_SCRIPT", pos + 1, pos + 2)
         [] code = "-" /\ next = "-" ->
              EntersChild("BEGIN_DELIMITED_HTML_BLOCK", pos, pos)
         [] code = "-" /\ next # "-" ->
              Raises("ILLEGAL_LINE_START") /\ stack' = stack
         [] code = "/" /\ next = "/" -> EntersChild("JS_COMMENT_LINE", pos, pos + 2)
         [] code = "/" /\ next = "*" -> EntersChild("JS_COMMENT_BLOCK", pos, pos + 2)
         [] code = "/" /\ next \notin {"/", "*"} ->
              Raises("ILLEGAL_LINE_START") /\ stack' = stack
         [] OTHER -> EntersChild("OPEN_TAG", pos, pos)
    ]_vars

\* A child line that starts with a `/` which begins no comment has been
\* refused.
C21_Witness ==
  /\ Top(Cur).state = "CONCISE_HTML_CONTENT"
  /\ tags # <<>>
  /\ \E i \in ErrorIndexes :
       /\ events[i].code = "ILLEGAL_LINE_START"
       /\ CodeAt(data, events[i].start) = "/"
       /\ CodeAt(data, events[i].start + 1) \notin {"/", "*"}

\* The line is refused with the error errorCode: after the close events of
\* the dedent the error is the only event, no child state is entered and the
\* parent tag p is left as it was.
Refused(errorCode, p) ==
  /\ Raises(errorCode)
  /\ Len(events') = Len(events) + Cardinality(Dedented) + 1
  /\ \A k \in (Len(events) + 1)..(Len(events') - 1) : events'[k].type = "closeTag"
  /\ stack' = stack
  /\ Len(tags') = p
  /\ p > 0 => tags'[p] = tags[p]

\* C22: the concise line-start checks are applied in a fixed order after the
\* dedent closes: BAD_INDENTATION when no tag remains open and the indent is
\* non-empty, then INVALID_BODY when the parent's ending is not `tag`, then
\* ILLEGAL_LINE_START when the parent's body mode is PARSED_TEXT and the
\* first byte is not `-`, then BAD_INDENTATION on a nestedIndent mismatch.
\* The first check that fails is the only error reported, no child state is
\* entered for that line, and the parent's nestedIndent is not modified.
C22_LineStartChecks ==
  [][LineStart =>
       LET p == Len(tags) - Cardinality(Dedented) IN
       IF p = 0 THEN indent # <<>> => Refused("BAD_INDENTATION", p)
       ELSE IF tags[p].ending # "tag" THEN Refused("INVALID_BODY", p)
       ELSE IF tags[p].bodyMode = "PARSED_TEXT" /\ code # "-"
       THEN Refused("ILLEGAL_LINE_START", p)
       ELSE IF tags[p].hasNestedIndent /\ tags[p].nestedIndent # indent
       THEN Refused("BAD_INDENTATION", p)
       ELSE ~Raises("INVALID_BODY") /\ ~Raises("BAD_INDENTATION")
    ]_vars

\* A line under a parsed-text tag that starts with another byte than `-`
\* and whose indentation differs from the recorded one has been refused
\* with ILLEGAL_LINE_START.
C22_Witness ==
  /\ hasError
  /\ Top(Cur).state = "CONCISE_HTML_CONTENT"
  /\ \E i \in ErrorIndexes :
       /\ events[i].code = "ILLEGAL_LINE_START"
       /\ CodeAt(data, events[i].start) # "-"
  /\ tags # <<>>
  /\ ActiveTag(Cur).bodyMode = "PARSED_TEXT"
  /\ ActiveTag(Cur).hasNestedIndent
  /\ ActiveTag(Cur).nestedIndent # indent

\* A block comment that was opened at a concise line start is about to be
\* closed by `*/`.
ConciseBlockCommentCloses ==
  /\ In("JS_COMMENT_BLOCK")
  /\ Parent(Cur).state = "CONCISE_HTML_CONTENT"
  /\ code = "*"
  /\ CodeAt(data, pos + 1) = "/"

\* Only whitespace stands between offset i and the end of its line.
BlankToEndOfLine(i) ==
  \E q \in i..Len(data) :
    /\ \A k \in i..(q - 1) : CodeAt(data, k) \in Whitespace \ {"\n"}
    /\ CodeAt(data, q) \in {"\n", EOFCode}

CommentLineExits ==
  /\ popped' # <<>>
  /\ popped'[1].state = "JS_COMMENT_LINE"
  /\ popped'[1].end = pos
  /\ Len(stack') < Len(stack)

\* JS_COMMENT_LINE.char is about to run on the `<` of a close tag inside the
\* parsed-text body of a verbose tag.
CloseTagInCommentLine ==
  /\ AtChar("JS_COMMENT_LINE")
  /\ ~isConcise
  /\ textParseMode = "parsed-text"
  /\ code = "<"
  /\ CodeAt(data, pos + 1) = "/"

\* The first half of C24: a JS_COMMENT_LINE frame exits at the first
\* end-of-line or at end of input, and at no byte that is not the `<` of a
\* close tag in a parsed-text body.
C24_ExitsAtLineEnd ==
  /\ [][(AtEol("JS_COMMENT_LINE") \/ AtEof("JS_COMMENT_LINE")) => CommentLineExits]_vars
  /\ [][(AtChar("JS_COMMENT_LINE") /\ ~CloseTagInCommentLine) =>
          stack' = stack /\ pos' = pos + 1 /\ events' = events]_vars

\* C24: a JS_COMMENT_LINE frame exits at the first end-of-line or at end of
\* input and at no other byte, except that in verbose mode with the
\* parsed-text body mode a `<` byte inside the comment triggers the
\* close-tag lookahead, so that in `<script>//foo</script>` the closing tag
\* ends the comment and the tag body.
C24_CommentLineExit ==
  /\ [][(AtEol("JS_COMMENT_LINE") \/ AtEof("JS_COMMENT_LINE")) => CommentLineExits]_vars
  /\ [][(AtChar("JS_COMMENT_LINE") /\ ~CloseTagInCommentLine) =>
          stack' = stack /\ pos' = pos + 1 /\ events' = events]_vars
  /\ [][CloseTagInCommentLine => CommentLineExits]_vars

\* C25: for one attribute frame, onAttrName is invoked at most once, also
\* when the attribute has no parsed name and passes through more than one of
\* the triggers `(`, `{`, `=` and `:=` (for example a default attribute with
\* an argument followed by a value or by a method block).
C25_AttrNameOnce ==
  \A i, j \in Ranged :
    (/\ events[i].type = "attrName"
     /\ events[j].type = "attrName"
     /\ events[i].owner = events[j].owner) => i = j

\* Bytes that EXPRESSION.char handles in its switch.
SwitchBytes == OpeningBytes \cup ClosingBytes \cup {"\"", "'", BACKTICK, "/"}

\* C26: when the operator lookahead matches at a depth-0 whitespace byte,
\* only whitespace and operator bytes are skipped: every opening bracket,
\* closing bracket, quote, backtick or slash that follows the operator is
\* still dispatched to EXPRESSION.char, in both surface modes, so a group
\* opened directly after an operator (for example `-(` after whitespace in
\* concise mode) is pushed on groupStack and its closing byte does not raise
\* INVALID_EXPRESSION.
C26_OperatorSkip ==
  [][(/\ WhitespaceAtDepth0
      /\ LineBreak = 0
      /\ lookAheadPattern(data, pos, isConcise) > 0) =>
       LET operator == SkipSpaces(data, pos) IN
         /\ stack' = stack
         /\ pos' >= operator
         /\ \A k \in (operator + 1)..(pos' - 1) : CodeAt(data, k) \notin SwitchBytes
    ]_vars

\* ATTRIBUTE, EXPRESSION or CONCISE_HTML_CONTENT is about to handle a byte
\* or a line break (char or eol).
ByteDispatch ==
  /\ phase = "parse"
  /\ pos < Len(data)
  /\ Top(Cur).state \in {"ATTRIBUTE", "EXPRESSION", "CONCISE_HTML_CONTENT"}

\* One of the three states is about to handle the end of the input (eof).
EofDispatch ==
  /\ phase = "parse"
  /\ pos >= Len(data)
  /\ Top(Cur).state \in {"ATTRIBUTE", "EXPRESSION", "CONCISE_HTML_CONTENT"}

\* The active frame is an attribute that stays on the stack with another
\* stage.
StageChanges ==
  /\ Top(Cur).state = "ATTRIBUTE"
  /\ Len(stack') >= Len(stack)
  /\ stack'[Len(stack)].stage # Top(Cur).stage

\* The dispatch that is about to happen: the active frame, its stage and the
\* offset of the byte.
ThisDispatch ==
  [depth |-> Len(stack), state |-> Top(Cur).state, start |-> Top(Cur).start,
   stage |-> Top(Cur).stage, pos |-> pos]

\* C27 as stated: every dispatch step of ATTRIBUTE, EXPRESSION and
\* CONCISE_HTML_CONTENT either advances pos, pops a frame, changes the
\* attribute stage, or latches the error; the next byte dispatched is at an
\* offset not lower than the triggering byte, and no byte is dispatched
\* twice to the same frame in the same stage.
C27_Progress ==
  /\ [][(ByteDispatch \/ EofDispatch) =>
          (pos' > pos \/ popped' # <<>> \/ StageChanges \/ hasError')]_vars
  /\ [][ByteDispatch => pos' >= pos]_vars
  /\ [][ByteDispatch => ThisDispatch \notin dispatched]_vars

\* C27, amended: parsing any finite input terminates.  Every dispatch of a
\* byte or a line break to ATTRIBUTE, EXPRESSION and CONCISE_HTML_CONTENT
\* either advances pos, pushes a child frame, pops a frame, changes the
\* attribute stage, or latches the error, and every dispatch of the end of
\* the input to them pops a frame, latches the error or is the last call of
\* the loop.  The next byte dispatched is at an offset not lower than the
\* triggering byte, and no byte is dispatched twice to the same frame in the
\* same stage.
C27_ProgressAmended ==
  /\ [][ByteDispatch =>
          \/ pos' > pos
          \/ Len(stack') > Len(stack)
          \/ popped' # <<>>
          \/ StageChanges
          \/ hasError'
       ]_vars
  /\ [][EofDispatch => (popped' # <<>> \/ hasError' \/ phase' = "done")]_vars
  /\ [][ByteDispatch => pos' >= pos]_vars
  /\ [][ByteDispatch => ThisDispatch \notin dispatched]_vars
  /\ <>(phase = "finished")

\* The look-behind branch of the operator rule has been taken at a
\* whitespace byte, and the next byte dispatched to the expression is the
\* one after the whitespace.
C27_Witness ==
  /\ In("EXPRESSION")
  /\ pos < Len(data)
  /\ ~isWhitespaceCode(code)
  /\ \E d \in dispatched :
       /\ d.state = "EXPRESSION"
       /\ d.depth = Len(stack)
       /\ d.start = Top(Cur).start
       /\ d.pos < pos
       /\ \A k \in d.pos..(pos - 1) : isWhitespaceCode(CodeAt(data, k))
       /\ lookAheadPattern(data, d.pos, isConcise) < 0
       /\ lookBehindPattern(data, d.pos)
       /\ \A e \in dispatched : e.pos <= d.pos
=============================================================================
